---- MODULE Spec2Model ----
(***************************************************************************)
(* VirtEditor: the concurrent multi-slot data acquisition subsystem.       *)
(*                                                                         *)
(*   SlotDataFetcher (src/slot_data_fetcher.py): start(), stop(), the      *)
(*   control thread running fetch_all_data, and the ThreadPoolExecutor     *)
(*   workers running fetch_slot_data.                                      *)
(*   DeviceApiClient (src/api/client.py): authenticate(),                  *)
(*   get_focused_slot_data(), get_slot_data(), _fallback_get_data(),       *)
(*   detect_slots(); ApiWorker and SlotDetectionWorker (src/api/worker.py).*)
(*                                                                         *)
(* Specifications:                                                         *)
(*   Spec        one SlotDataFetcher as MainWindow uses it (a fresh        *)
(*               instance per start), the UI thread calling start() and    *)
(*               stop() at any moment, a clock, a device that may answer   *)
(*               every request in any way.                                 *)
(*   RestartSpec the same instance with start() called again after stop(), *)
(*               without the clock.                                        *)
(*   PoolSpec    the pool of one run over up to PoolSlots slots.           *)
(*   ThrottleSpec one run that is not stopped, over up to ThrottleSlots    *)
(*               slots, with a clock reaching twice the update interval.   *)
(*   ClientSpec  the pool workers and one ApiWorker sharing one            *)
(*               DeviceApiClient, statement by statement.                  *)
(*   WorkerSpec  one caller of the client (ApiWorker.run with              *)
(*               get_slot_data and _fallback_get_data, detect_slots, or    *)
(*               fetch_slot_data) against a device that may answer every   *)
(*               request in any way.                                       *)
(*   AuthSpec    authenticate() called by threads sharing one client, step *)
(*               by step, with the requests sent and the form posted.      *)
(*   LiveSpec    the instance of Spec without the clock, with threads that *)
(*               keep running (weak fairness), for termination.            *)
(*   DataSpec    DeviceData (src/models/device_data.py) built from the     *)
(*               same sections placed in each payload shape.               *)
(***************************************************************************)
EXTENDS Integers, Sequences, FiniteSets, TLC

\* ------------------------------------------------------------------ bounds
\* Largest number of slots of the fetcher in Spec (slots are "1".."n").
MaxSlots == 2
\* Largest number of slots in RestartSpec.
RestartSlots == 1
\* Largest number of slots in PoolSpec: one more than the pool's cap.
PoolSlots == 9
\* Last reading of the clock, in ticks of 100 ms.
MaxClock == 2
\* Largest number of slots in ThrottleSpec: two completions before the final
\* one.
ThrottleSlots == 3
\* Last reading of the clock in ThrottleSpec: twice the update interval.
ThrottleClock == 4
\* start() calls that begin a run on the one instance of RestartSpec.
MaxRuns == 2
\* Pool workers sharing the client in ClientSpec (beside the one ApiWorker).
ClientWorkers == 2
\* Times the device may drop the session in ClientSpec.
MaxExpiry == 1
\* The slots of a device are 1..ProbeSlots.
ProbeSlots == 3
\* The authenticate() calls of AuthSpec, each made by a thread of its own.
MaxAuthCalls == 2

\* ------------------------------------------------------- program constants
\* min(8, len(slots)): the 8.
PoolCap == 8
\* update_interval = 0.2 s, in ticks of 100 ms.
UpdateInterval == 2
\* MainWindow builds a new SlotDataFetcher for every start().
StartsPerInstance == 1

Min(a, b) == IF a <= b THEN a ELSE b
Max(a, b) == IF a >= b THEN a ELSE b

SlotBound == Max(MaxSlots, Max(RestartSlots, PoolSlots))
SlotIds == 1..SlotBound
Runs == 1..MaxRuns
Sections == {"dev", "alarms"}

\* --------------------------------------------------------- Python values
None == [kind |-> "None", data |-> {}]
Dict(S) == [kind |-> "dict", data |-> S]
\* An exception leaving a call.
Raise == [kind |-> "raise", data |-> {}]
\* A key that is not in a dict.
Absent == [kind |-> "absent", data |-> {}]
EmptyDict == [s \in SlotIds |-> Absent]
Keys(d) == {s \in DOMAIN d : d[s] # Absent}

\* bool(v) of a value fetch_slot_data returns.
Truthy(v) == v.kind = "dict"

\* ------------------------------------------------------- DeviceApiClient
\* What the device may answer to the probe GET of authenticate().
ProbeResp == {"neterr", "non200", "nologin", "login_noform", "login_form"}
\* What the device may answer to the login POST.
PostResp == {"neterr", "non200", "failed", "ok"}
\* What the device may answer to a section GET: a transport error
\* (RequestException), a status other than 200, 200 with JSON, 200 with JSON
\* inside other text, 200 with no JSON at all, 200 with the login page; and
\* "exception": the request ends in an exception of another class.
SectResp == {"neterr", "non200", "json", "embedded", "garbage", "login",
             "exception"}

\* What the device may answer to a GET of get_slot_data: beside the above, a
\* response that shows the login indication ("login" in its URL, or status 200
\* with "login" in the first 1000 characters) whose body is JSON
\* ("login_json"), holds JSON inside other text ("login_embedded"), or whose
\* status is not 200 ("login_non200"). "login" is the login page itself: 200,
\* no JSON to be found in it.
FullResp == SectResp \cup {"login_json", "login_embedded", "login_non200"}
\* What the device may answer to the GET of data.json or of detected_coll:
\* there "json" and "embedded" stand for a document of the expected shape (a
\* dict with a non-empty 'data', holding detected_coll as a dict); the other
\* bodies are, by what the test of lines 157-158 (`in` and [] down the path
\* data.shelf.slots.detected_coll) and .keys() do on them:
\*   "json_empty"        the empty object {};
\*   "json_null"         null, which response.json() gives as None;
\*   "json_false"        the other JSON values that are false ([], 0,
\*                       false, "");
\*   "json_nodata"       JSON that is true, without a true 'data', on which
\*                       the test is False ({"data": {}}, {"a": 1}, [1, 2]);
\*   "json_scalar"       JSON that is true and no dict, on which the test
\*                       raises TypeError (5, true);
\*   "json_nopath"       a dict with a true 'data' in which a level of the
\*                       path is missing, so that the test is False
\*                       ({"data": {"x": 1}}, {"data": {"shelf": {}}},
\*                       {"data": {"shelf": {"slots": {}}}});
\*   "json_badshape"     a dict with a true 'data' in which a level of the
\*                       path is no dict, so that the test raises
\*                       TypeError ({"data": 5}, {"data": {"shelf": 1}}),
\*                       or whose detected_coll has no .keys() (a list,
\*                       null);
\*   "embedded_nodata"   a dict inside other text, without a true 'data'
\*                       (xx {"a": 1} yy);
\*   "embedded_badshape" a dict inside other text with a true 'data' that is
\*                       not the document (xx {"data": 5} yy).
DocResp == FullResp \cup {"json_nodata", "json_empty", "json_null",
                          "json_false", "json_scalar", "json_nopath",
                          "json_badshape", "embedded_nodata",
                          "embedded_badshape"}

\* response.status_code == 200
Status200(resp) ==
  resp \in {"json", "embedded", "garbage", "login", "login_json",
            "login_embedded", "json_nodata", "json_empty", "json_null",
            "json_false", "json_scalar", "json_nopath", "json_badshape",
            "embedded_nodata", "embedded_badshape"}
\* "login" in response.url.lower() or
\*   (response.status_code == 200 and "login" in response.text.lower()[:1000])
LoginIndicated(resp) ==
  resp \in {"login", "login_json", "login_embedded", "login_non200"}
\* response.json() returns (does not raise JSONDecodeError)
JsonParses(resp) ==
  resp \in {"json", "login_json", "json_nodata", "json_empty", "json_null",
            "json_false", "json_scalar", "json_nopath", "json_badshape"}
\* _extract_json_from_content(response.text) returns a value that is true
Extracted(resp) ==
  resp \in {"embedded", "login_embedded", "embedded_nodata",
            "embedded_badshape"}

\* A section is stored only when response.json() parses it.
SectionStores_JsonOnly(resp) == Status200(resp) /\ JsonParses(resp)

\* get_slot_data, lines 293-308: the section is stored when the status is 200
\* and the body parses as JSON or JSON can be extracted from it.
SectionStores(resp) ==
  Status200(resp) /\ (JsonParses(resp) \/ Extracted(resp))

\* A probe that shows no login page proves nothing: only a login does.
Authenticate_NeedsForm(auth, probe, post) ==
  IF auth THEN [ok |-> TRUE, auth |-> TRUE]
  ELSE IF probe = "login_form" /\ post = "ok" THEN [ok |-> TRUE, auth |-> TRUE]
  ELSE [ok |-> FALSE, auth |-> FALSE]

\* authenticate(): the value returned and the flag left, from the flag found
\* and the answers to the requests it makes.
Authenticate(auth, probe, post) ==
  IF auth THEN [ok |-> TRUE, auth |-> TRUE]
  ELSE IF probe \in {"neterr", "non200", "login_noform"}
       THEN [ok |-> FALSE, auth |-> FALSE]
  ELSE IF probe = "nologin" THEN [ok |-> TRUE, auth |-> TRUE]
  ELSE IF post = "ok" THEN [ok |-> TRUE, auth |-> TRUE]
  ELSE [ok |-> FALSE, auth |-> FALSE]

\* Why authenticate() returned False: the log line it wrote and the request
\* it wrote it for. "none" when it returned True.
AuthCause(auth, probe, post) ==
  IF auth THEN "none"
  ELSE IF probe = "neterr" THEN "transport"
  ELSE IF probe = "non200" THEN "status"
  ELSE IF probe = "login_noform" THEN "protocol"
  ELSE IF probe = "nologin" THEN "none"
  ELSE IF post = "neterr" THEN "transport_post"
  ELSE IF post = "non200" THEN "status"
  ELSE IF post = "failed" THEN "credentials"
  ELSE "none"

\* self.username and self.password, and the value of a hidden input.
Username == "username"
Password == "password"
HiddenValue == "token"
\* No input of the kind in the form (or one whose name is empty).
NoField == ""
\* The name of the first named text input of the login form, of its first
\* named password input, and the names of its hidden inputs.
TextNames == {NoField, "user"}
PassNames == {NoField, "pass"}
HiddenNames == {"csrf", "lang"}

\* form_data[k] = v
Put(f, k, v) == [n \in DOMAIN f \cup {k} |-> IF n = k THEN v ELSE f[n]]

RECURSIVE PutAll(_, _, _)
PutAll(f, K, v) ==
  IF K = {} THEN f
  ELSE LET k == CHOOSE x \in K : TRUE
       IN  PutAll(Put(f, k, v), K \ {k}, v)

\* authenticate(), lines 64-84: the form data posted. The dict starts as
\* {'us', 'pw'}; a named text input replaces the whole dict by its one
\* entry; a named password input adds its entry; hidden inputs are copied.
FormData(text, pass, hidden) ==
  LET start == [n \in {"us", "pw"} |->
                  IF n = "us" THEN Username ELSE Password]
      named == IF text # NoField THEN [n \in {text} |-> Username] ELSE start
      withPw == IF pass # NoField THEN Put(named, pass, Password) ELSE named
  IN  PutAll(withPw, hidden, HiddenValue)

NoForm == [n \in {} |-> ""]
GetRequest == [method |-> "GET", form |-> NoForm]
PostRequest(form) == [method |-> "POST", form |-> form]

\* The probe is sent even when the session is authenticated.
AuthRequests_AlwaysProbe(auth, probe, text, pass, hidden) ==
  IF probe = "login_form" /\ ~auth
  THEN <<GetRequest, PostRequest(FormData(text, pass, hidden))>>
  ELSE <<GetRequest>>

\* authenticate(): the HTTP requests it sends, in order.
AuthRequests(auth, probe, text, pass, hidden) ==
  IF auth THEN <<>>
  ELSE IF probe = "login_form"
       THEN <<GetRequest, PostRequest(FormData(text, pass, hidden))>>
  ELSE <<GetRequest>>

\* authenticate(): the responses the session receives (each may set
\* cookies).
AuthResponses(auth, probe, post) ==
  IF auth \/ probe = "neterr" THEN 0
  ELSE IF probe = "login_form" /\ post # "neterr" THEN 2
  ELSE 1

\* No authenticate() call yet. Of a call: where it is (pc), the flag it read
\* at line 31 (before), the answers it got and the form it found, the value
\* it returned (ok), whether it assigned the flag (wrote), the flag as it
\* was when it returned (after), the log line of its failure (cause), the
\* requests it has sent and the number of responses it has received.
NoCall ==
  [pc |-> "idle", made |-> FALSE, before |-> FALSE, probe |-> "nologin",
   login |-> FALSE, post |-> "ok", text |-> NoField, pass |-> NoField,
   hidden |-> {}, ok |-> FALSE, wrote |-> FALSE, after |-> FALSE,
   cause |-> "none", reqs |-> <<>>, responses |-> 0]

\* One section of get_focused_slot_data: stored only when the answer is 200
\* and response.json() parses it.
FocusedStores(resp) == Status200(resp) /\ JsonParses(resp)

\* get_focused_slot_data(): the value returned and the flag left.
FocusedFetch(auth, probe, post, rdev, ralarms) ==
  LET a == Authenticate(auth, probe, post)
      got == {s \in Sections :
                FocusedStores(IF s = "dev" THEN rdev ELSE ralarms)}
  IN  IF ~a.ok THEN [value |-> None, auth |-> a.auth]
      ELSE IF "exception" \in {rdev, ralarms}
           THEN [value |-> Raise, auth |-> a.auth]
      ELSE IF got = {} THEN [value |-> None, auth |-> a.auth]
      ELSE [value |-> Dict(got), auth |-> a.auth]

\* fetch_slot_data(): data if it is a dict with a non-empty 'data', else
\* None; None too when the call raised (except Exception: return None).
FetchSlotData(v) ==
  IF v.kind = "raise" THEN None
  ELSE IF Truthy(v) /\ v.data # {} THEN v ELSE None

\* ------------------------------------------------------------ DeviceData
\* A JSON object is a function from its keys to its values; the values at
\* the leaves are strings, an integer n written "int:n".
EmptyJson == [n \in {} |-> ""]
\* {k: v}
Obj(k, v) == [n \in {k} |-> v]
\* {**f, **g}
Merge(f, g) ==
  [n \in DOMAIN f \cup DOMAIN g |-> IF n \in DOMAIN g THEN g[n] ELSE f[n]]

\* 'k1' in d and 'k2' in d['k1'] and ...
RECURSIVE HasPath(_, _)
HasPath(d, path) ==
  IF path = <<>> THEN TRUE
  ELSE Head(path) \in DOMAIN d /\ HasPath(d[Head(path)], Tail(path))

\* d['k1']['k2']...
RECURSIVE At(_, _)
At(d, path) == IF path = <<>> THEN d ELSE At(d[Head(path)], Tail(path))

\* The default structures of the four extractors.
ProductDefault ==
  [n \in {"prodname", "serialfull", "swver", "swbuildtime"} |-> "Unknown"]
TimeDefault == [n \in {"localtimetxt", "uptimetxt"} |-> "Unknown"]
MemoryDefault ==
  [n \in {"threshold", "pool_coll"} |->
     IF n = "threshold" THEN "0" ELSE EmptyJson]
AlarmKeys == {"n_total", "n_critical", "n_major", "n_minor", "n_warning"}
AlarmDefault == [n \in AlarmKeys |-> "0"]

\* The four places a section is looked for, in the order of the code.
SectionPaths(key) ==
  << <<"data", "dev", "data", "dev", key>>,
     <<"data", "dev", key>>,
     <<"dev", "data", "dev", key>>,
     <<"device_info", key>> >>

\* The first place that holds the section, else the default.
ExtractSection(raw, key, default) ==
  LET found == {i \in 1..4 : HasPath(raw, SectionPaths(key)[i])} IN
    IF found = {} THEN default
    ELSE At(raw, SectionPaths(key)[CHOOSE i \in found :
                                     \A j \in found : i <= j])

ExtractProductInfo(raw) == ExtractSection(raw, "product_info", ProductDefault)
ExtractTimeInfo(raw) == ExtractSection(raw, "time", TimeDefault)
ExtractMemoryInfo(raw) == ExtractSection(raw, "mem_usage", MemoryDefault)

\* status.get('active_count', 0) if 'active_count' in status else 0
CountOf(status, key) == IF key \in DOMAIN status THEN status[key] ELSE "int:0"

\* Lines 125-132: the alarm structure built from the counts of a status.
AlarmsFromStatus(status) ==
  [n \in AlarmKeys |->
     CASE n = "n_total" -> CountOf(status, "active_count")
       [] n = "n_critical" -> CountOf(status, "critical_count")
       [] n = "n_major" -> CountOf(status, "major_count")
       [] n = "n_minor" -> CountOf(status, "minor_count")
       [] OTHER -> CountOf(status, "warning_count")]

\* _extract_alarm_info: the doubly nested status (its severities, or the
\* structure built from its counts), the severities of the original
\* structure, the sectioned status (its severities, or the status itself),
\* else the default.
ExtractAlarmInfo(raw) ==
  LET nested == <<"data", "dev", "data", "dev", "alarms", "status">>
      flat == <<"data", "dev", "alarms", "status">>
      sectioned == <<"alarms", "status">>
  IN  IF HasPath(raw, nested)
      THEN IF "severities" \in DOMAIN At(raw, nested)
           THEN At(raw, nested)["severities"]
           ELSE AlarmsFromStatus(At(raw, nested))
      ELSE IF HasPath(raw, flat) /\ "severities" \in DOMAIN At(raw, flat)
      THEN At(raw, flat)["severities"]
      ELSE IF HasPath(raw, sectioned)
      THEN IF "severities" \in DOMAIN At(raw, sectioned)
           THEN At(raw, sectioned)["severities"]
           ELSE At(raw, sectioned)
      ELSE AlarmDefault

\* DeviceData(raw_data): the four attributes.
DeviceData(raw) ==
  [product_info |-> ExtractProductInfo(raw),
   time_info |-> ExtractTimeInfo(raw),
   memory_info |-> ExtractMemoryInfo(raw),
   alarm_info |-> ExtractAlarmInfo(raw)]

\* ------------------------------------------------------- SlotDataFetcher
VARIABLES
  slots,             \* self.slots
  is_running,        \* self.is_running
  all_slots_data,    \* self.all_slots_data
  completed_slots,   \* self.completed_slots
  last_update_time,  \* self.last_update_time
  thread,            \* self.thread: the run whose QThread it is, 0 for None
  nruns,             \* runs begun by start() so far
  cpc,               \* per run: where its control thread is in fetch_all_data
  submitted,         \* per run: futures submitted so far
  task,              \* per run: state of each future
  result,            \* per run: future.result() of each finished future
  yielded,           \* per run: futures as_completed has yielded
  cur,               \* per run: the future the loop body holds
  ctime,             \* per run: current_time of the loop body, while it is live
  cancelled,         \* per run: stop() cleared is_running during the run
  termReq,           \* per run: QThread.terminate() was called on its thread
  uipc,              \* where the UI thread is: idle, inside start() or stop()
  now,               \* time.time(), in ticks
  signals,           \* the signals emitted so far, in order
  authenticated,     \* api_client.authenticated
  devLoggedIn,       \* device: the session's cookie is logged in
  tpc,               \* per client task: the statement it is at
  tctx,              \* per client task: who called authenticate()
  tsect,             \* per client task: index of the section being fetched
  tdata,             \* per client task: combined_data["data"]
  posts,             \* login forms POSTed so far
  authSets,          \* times authenticated went from False to True
  expiries,          \* times the device dropped the session
  wpc,               \* the sequential caller: where it is
  wcall,             \* which call it makes: full, discovery or focused
  wsect,             \* get_slot_data: index of the section; 7 is the fallback
  wdata,             \* get_slot_data: the keys of combined_data["data"]
  wok,               \* sections answered with JSON, while wclean holds
  wclean,            \* every section was answered without login page or exception
  csent,             \* GETs sent for the current request
  creauth,           \* authenticate() calls made for the current request
  cposts,            \* login forms POSTed for the current request
  cfirst,            \* the first response to the current request
  clast,             \* the last response to the current request
  wfailed,           \* a re-authentication of this call has failed
  wret,              \* the value the client call returned
  wsig,              \* signals ApiWorker emitted, in order
  wrunning,          \* ApiWorker.running
  wlog,              \* requests issued: who asked for which URL
  wkeys,             \* discovery: the keys of detected_coll on the device
  devSlots,          \* discovery: the slots whose per-slot URL answers 200
  wslots,            \* discovery: the list detect_slots returned
  wentryfail,        \* why the authenticate() at the entry of the call failed
  acall,             \* AuthSpec: per calling thread, its authenticate() call
  nunder,            \* DataSpec: the sections a device reports
  nraw,              \* DataSpec: per shape, the raw payload holding them
  nview              \* DataSpec: per shape, the DeviceData built from it

\* The fetcher's state.
fstate == <<slots, is_running, all_slots_data, completed_slots,
            last_update_time, thread, nruns, cpc, submitted, task, result,
            yielded, cur, ctime, cancelled, termReq, uipc, now, signals>>

\* The state of the tasks that ClientSpec runs statement by statement.
cstate == <<devLoggedIn, tpc, tctx, tsect, tdata, posts, authSets, expiries>>

\* What a discovery call is made against and what it returned.
dstate == <<wkeys, devSlots, wslots>>

\* The state of the caller that WorkerSpec runs against any device.
wstate == <<wpc, wcall, wsect, wdata, wok, wclean, csent, creauth, cposts,
            cfirst, clast, wfailed, wret, wsig, wrunning, wlog, dstate,
            wentryfail>>

\* The authenticate() calls that AuthSpec makes.
astate == <<acall>>

\* The payloads DataSpec builds and the DeviceData made of them.
nstate == <<nunder, nraw, nview>>

vars == <<fstate, authenticated, cstate, wstate, astate, nstate>>

\* ------------------------------------- the client, statement by statement
\* Task 0 is the ApiWorker thread running get_slot_data(); tasks
\* 1..ClientWorkers are pool workers running get_focused_slot_data().
CTasks == 0..ClientWorkers

\* get_focused_slot_data: essential_sections, in order.
FocusedSections == <<"dev", "alarms">>
\* get_slot_data: all_sections = {**sections, **optional_sections}, in order.
AllSections == <<"dev", "store", "alarms", "shelf", "elements", "network">>

SectionsOf(t) == IF t = 0 THEN AllSections ELSE FocusedSections

\* A reachable device that accepts the credentials: the protected page and
\* the section URLs show the login page until the session has logged in.
DevProbe(loggedIn) == IF loggedIn THEN "nologin" ELSE "login_form"
DevSection(loggedIn) == IF loggedIn THEN "json" ELSE "login"

\* "login" in response.url.lower() or (status 200 and "login" in the text)
IsLoginPage(resp) == resp = "login"

ClientIdle ==
  /\ devLoggedIn = FALSE
  /\ tpc = [t \in CTasks |-> "idle"]
  /\ tctx = [t \in CTasks |-> "entry"]
  /\ tsect = [t \in CTasks |-> 1]
  /\ tdata = [t \in CTasks |-> {}]
  /\ posts = 0
  /\ authSets = 0
  /\ expiries = 0

\* No value returned yet.
Pending == [kind |-> "pending", data |-> {}]

\* The caller of WorkerSpec before it calls anything.
WorkerIdle ==
  /\ wpc = "idle"
  /\ wcall = "none"
  /\ wsect = 1
  /\ wdata = {}
  /\ wok = {}
  /\ wclean = TRUE
  /\ csent = 0
  /\ creauth = 0
  /\ cposts = 0
  /\ cfirst = "none"
  /\ clast = "none"
  /\ wfailed = FALSE
  /\ wret = Pending
  /\ wsig = <<>>
  /\ wrunning = TRUE
  /\ wlog = {}
  /\ wkeys = {}
  /\ devSlots = {}
  /\ wslots = <<>>
  /\ wentryfail = "none"
  /\ acall = [c \in 1..MaxAuthCalls |-> NoCall]
  /\ nunder = EmptyJson
  /\ nraw = EmptyJson
  /\ nview = EmptyJson

\* The task is between authenticated = False of a re-authentication and the
\* return of the authenticate() that follows it.
InReauth(t) ==
  tctx[t] = "reauth" /\ tpc[t] \in {"auth_chk", "auth_probe", "auth_post", "auth_set"}

\* The task is inside a call on the client.
InClient(t) == tpc[t] \notin {"idle", "done"}

\* get_focused_slot_data(slot) or get_slot_data(slot) is called:
\* if not self.authenticate()
Call(t) ==
  /\ tpc[t] = "idle"
  /\ tpc' = [tpc EXCEPT ![t] = "auth_chk"]
  /\ UNCHANGED <<nstate, astate, wstate, fstate, authenticated, devLoggedIn, tctx, tsect, tdata,
                 posts, authSets, expiries>>

\* Where authenticate() returns True to.
AfterAuth(t) == IF tctx[t] = "reauth" THEN "retry" ELSE "get"

\* authenticate(): if self.authenticated: return True
AuthCheck(t) ==
  /\ tpc[t] = "auth_chk"
  /\ tpc' = [tpc EXCEPT ![t] = IF authenticated THEN AfterAuth(t) ELSE "auth_probe"]
  /\ tctx' = [tctx EXCEPT ![t] = IF authenticated THEN "entry" ELSE @]
  /\ UNCHANGED <<nstate, astate, wstate, fstate, authenticated, devLoggedIn, tsect, tdata, posts,
                 authSets, expiries>>

\* authenticate(): response = self.session.get(login_url); login page or not
AuthProbe(t) ==
  /\ tpc[t] = "auth_probe"
  /\ tpc' = [tpc EXCEPT ![t] =
               IF DevProbe(devLoggedIn) = "login_form" THEN "auth_post"
               ELSE "auth_set"]
  /\ UNCHANGED <<nstate, astate, wstate, fstate, authenticated, devLoggedIn, tctx, tsect, tdata,
                 posts, authSets, expiries>>

\* authenticate(): login_response = self.session.post(form_action, ...)
AuthPost(t) ==
  /\ tpc[t] = "auth_post"
  /\ posts' = posts + 1
  /\ devLoggedIn' = TRUE
  /\ tpc' = [tpc EXCEPT ![t] = "auth_set"]
  /\ UNCHANGED <<nstate, astate, wstate, fstate, authenticated, tctx, tsect, tdata, authSets,
                 expiries>>

\* authenticate(): self.authenticated = True; return True
AuthSet(t) ==
  /\ tpc[t] = "auth_set"
  /\ authenticated' = TRUE
  /\ authSets' = IF authenticated THEN authSets ELSE authSets + 1
  /\ tpc' = [tpc EXCEPT ![t] = AfterAuth(t)]
  /\ tctx' = [tctx EXCEPT ![t] = "entry"]
  /\ UNCHANGED <<nstate, astate, wstate, fstate, devLoggedIn, tsect, tdata, posts, expiries>>

\* The next section, or the end of the loop.
NextSection(t) ==
  /\ tsect' = [tsect EXCEPT ![t] = @ + 1]
  /\ tpc' = [tpc EXCEPT ![t] =
               IF tsect[t] = Len(SectionsOf(t)) THEN "done" ELSE "get"]

\* The section's value is stored when the 200 response parses as JSON.
Store(t, resp) ==
  tdata' = [tdata EXCEPT ![t] =
              IF resp = "json" THEN @ \cup {SectionsOf(t)[tsect[t]]} ELSE @]

\* response = self.session.get(section_url): in get_slot_data a login page
\* starts the re-authentication, in get_focused_slot_data it does not.
Get(t) ==
  /\ tpc[t] = "get"
  /\ LET resp == DevSection(devLoggedIn) IN
       IF t = 0 /\ IsLoginPage(resp)
       THEN /\ tpc' = [tpc EXCEPT ![t] = "reset"]
            /\ UNCHANGED <<tsect, tdata>>
       ELSE Store(t, resp) /\ NextSection(t)
  /\ UNCHANGED <<nstate, astate, wstate, fstate, authenticated, devLoggedIn, tctx, posts, authSets,
                 expiries>>

\* get_slot_data: self.authenticated = False, then authenticate()
ReauthReset(t) ==
  /\ tpc[t] = "reset"
  /\ authenticated' = FALSE
  /\ tctx' = [tctx EXCEPT ![t] = "reauth"]
  /\ tpc' = [tpc EXCEPT ![t] = "auth_chk"]
  /\ UNCHANGED <<nstate, astate, wstate, fstate, devLoggedIn, tsect, tdata, posts, authSets,
                 expiries>>

\* get_slot_data: the request again, once; its response is then parsed.
Retry(t) ==
  /\ tpc[t] = "retry"
  /\ Store(t, DevSection(devLoggedIn))
  /\ NextSection(t)
  /\ UNCHANGED <<nstate, astate, wstate, fstate, authenticated, devLoggedIn, tctx, posts, authSets,
                 expiries>>

\* The device drops the session.
Expire ==
  /\ expiries < MaxExpiry
  /\ devLoggedIn
  /\ devLoggedIn' = FALSE
  /\ expiries' = expiries + 1
  /\ UNCHANGED <<nstate, astate, wstate, fstate, authenticated, tpc, tctx, tsect, tdata, posts,
                 authSets>>

N == Len(slots)
Idx == 1..N

\* A pool as large as the slot list, without the cap.
MaxWorkers_NoCap(s) == Len(s)

\* self.max_workers = min(8, len(slots))
MaxWorkers(s) == Min(PoolCap, Len(s))

\* thread.isRunning(): the QThread of run r has been started and has not ended.
ThreadRunning(r) == r # 0 /\ cpc[r] \notin {"idle", "done", "killed"}

\* Where a pool worker can be in fetch_slot_data: entered ("running"), inside
\* authenticate() with its requests in flight ("auth"), or past it, with the
\* section GETs in flight ("fetch").
Executing == {"running", "auth", "fetch"}
Running(r) == {i \in Idx : task[r][i] \in Executing}
Done(r) == {i \in Idx : task[r][i] = "done"}

Signal(r, name, c, t, d) ==
  [run |-> r, sig |-> name, cur |-> c, total |-> t, data |-> d,
   cancelled |-> cancelled[r]]

Emit(e) == signals' = Append(signals, e)

\* __init__ with slots "1".."n".
FetcherInit(n) ==
  /\ slots = [i \in 1..n |-> i]
  /\ is_running = FALSE
  /\ all_slots_data = EmptyDict
  /\ completed_slots = 0
  /\ last_update_time = 0
  /\ thread = 0
  /\ nruns = 0
  /\ cpc = [r \in Runs |-> "idle"]
  /\ submitted = [r \in Runs |-> 0]
  /\ task = [r \in Runs |-> [i \in SlotIds |-> "unsubmitted"]]
  /\ result = [r \in Runs |-> [i \in SlotIds |-> None]]
  /\ yielded = [r \in Runs |-> {}]
  /\ cur = [r \in Runs |-> 0]
  /\ ctime = [r \in Runs |-> 0]
  /\ cancelled = [r \in Runs |-> FALSE]
  /\ termReq = [r \in Runs |-> FALSE]
  /\ uipc = "idle"
  /\ now = 0
  /\ signals = <<>>

\* start(), statement by statement; nothing makes it atomic against a
\* control thread that is still running. At most `limit` calls take effect.
\* Lines 32-36: if self.is_running: return; self.is_running = True. (The
\* only other writer of is_running between the test and the assignment is
\* the `finally` of a run, which writes False: the test and the assignment
\* in one step reach the same states.)
Start(limit) ==
  /\ uipc = "idle"
  /\ IF is_running
     THEN UNCHANGED vars
     ELSE /\ nruns < limit
          /\ is_running' = TRUE
          /\ uipc' = "start_data"
          /\ UNCHANGED <<nstate, astate, wstate, cstate, slots,
                         all_slots_data, completed_slots, last_update_time,
                         thread, nruns, cpc, submitted, task, result,
                         yielded, cur, ctime, cancelled, termReq, now,
                         signals, authenticated>>

\* Line 37: self.all_slots_data = {}
StartResetData ==
  /\ uipc = "start_data"
  /\ all_slots_data' = EmptyDict
  /\ uipc' = "start_count"
  /\ UNCHANGED <<nstate, astate, wstate, cstate, slots, is_running,
                 completed_slots, last_update_time, thread, nruns, cpc,
                 submitted, task, result, yielded, cur, ctime, cancelled,
                 termReq, now, signals, authenticated>>

\* Line 38: self.completed_slots = 0
StartResetCount ==
  /\ uipc = "start_count"
  /\ completed_slots' = 0
  /\ uipc' = "start_time"
  /\ UNCHANGED <<nstate, astate, wstate, cstate, slots, is_running,
                 all_slots_data, last_update_time, thread, nruns, cpc,
                 submitted, task, result, yielded, cur, ctime, cancelled,
                 termReq, now, signals, authenticated>>

\* Line 39: self.last_update_time = time.time()
StartStamp ==
  /\ uipc = "start_time"
  /\ last_update_time' = now
  /\ uipc' = "start_thread"
  /\ UNCHANGED <<nstate, astate, wstate, cstate, slots, is_running,
                 all_slots_data, completed_slots, thread, nruns, cpc,
                 submitted, task, result, yielded, cur, ctime, cancelled,
                 termReq, now, signals, authenticated>>

\* Lines 42-46: the QThread is created and started. The first start() moves
\* the object to the new QThread, whose started signal then runs
\* fetch_all_data in it. A later start() on the same instance is made from
\* the UI thread on an object that lives in the first QThread: moveToThread
\* (line 43) is refused, the slot connected at line 44 is queued to the first
\* thread, whose event loop does not run any more (quit() has been called on
\* it), and the new QThread only runs its own event loop: fetch_all_data
\* does not run again.
StartThread ==
  /\ uipc = "start_thread"
  /\ thread' = nruns + 1
  /\ nruns' = nruns + 1
  /\ cpc' = [cpc EXCEPT ![nruns + 1] =
               IF nruns = 0 THEN "started" ELSE "inert"]
  /\ uipc' = "idle"
  /\ UNCHANGED <<nstate, astate, wstate, cstate, slots, is_running,
                 all_slots_data, completed_slots, last_update_time,
                 submitted, task, result, yielded, cur, ctime, cancelled,
                 termReq, now, signals, authenticated>>

\* One statement of start() after its first.
StartStep == StartResetData \/ StartResetCount \/ StartStamp \/ StartThread

\* stop() up to thread.wait(2000).
StopCall ==
  /\ uipc = "idle"
  /\ IF ~is_running
     THEN UNCHANGED vars
     ELSE /\ is_running' = FALSE
          /\ cancelled' = [r \in Runs |->
                             cancelled[r] \/ r = thread \/ ThreadRunning(r)]
          /\ IF ThreadRunning(thread)
             THEN uipc' = "stop_wait" /\ UNCHANGED thread
             ELSE uipc' = "idle" /\ thread' = 0
          /\ UNCHANGED <<nstate, astate, wstate, cstate, slots, all_slots_data, completed_slots,
                         last_update_time, nruns, cpc, submitted, task,
                         result, yielded, cur, ctime, termReq, now, signals,
                         authenticated>>

\* thread.wait(2000) returns True: the control thread has ended.
StopWaitDone ==
  /\ uipc = "stop_wait"
  /\ ~ThreadRunning(thread)
  /\ thread' = 0
  /\ uipc' = "idle"
  /\ UNCHANGED <<nstate, astate, wstate, cstate, slots, is_running, all_slots_data, completed_slots,
                 last_update_time, nruns, cpc, submitted, task, result,
                 yielded, cur, ctime, cancelled, termReq, now, signals,
                 authenticated>>

\* thread.wait(2000) times out: thread.terminate().
StopWaitTimeout ==
  /\ uipc = "stop_wait"
  /\ ThreadRunning(thread)
  /\ termReq' = [termReq EXCEPT ![thread] = TRUE]
  /\ uipc' = "stop_term"
  /\ UNCHANGED <<nstate, astate, wstate, cstate, slots, is_running, all_slots_data, completed_slots,
                 last_update_time, thread, nruns, cpc, submitted, task,
                 result, yielded, cur, ctime, cancelled, now, signals,
                 authenticated>>

\* thread.wait(1000) returns, whether the thread ended or not; thread = None.
StopReturn ==
  /\ uipc = "stop_term"
  /\ thread' = 0
  /\ uipc' = "idle"
  /\ UNCHANGED <<nstate, astate, wstate, cstate, slots, is_running, all_slots_data, completed_slots,
                 last_update_time, nruns, cpc, submitted, task, result,
                 yielded, cur, ctime, cancelled, termReq, now, signals,
                 authenticated>>

\* thread.quit() of stop() ends the event loop of a QThread that runs nothing
\* else, and with it the thread.
EventLoopExit(r) ==
  /\ cpc[r] = "inert"
  /\ cancelled[r]
  /\ cpc' = [cpc EXCEPT ![r] = "done"]
  /\ UNCHANGED <<nstate, astate, wstate, cstate, slots, is_running, all_slots_data, completed_slots,
                 last_update_time, thread, nruns, submitted, task, result,
                 yielded, cur, ctime, cancelled, termReq, uipc, now, signals,
                 authenticated>>

\* The terminated control thread dies where it stands (it may also not).
Terminated(r) ==
  /\ termReq[r]
  /\ ThreadRunning(r)
  /\ cpc' = [cpc EXCEPT ![r] = "killed"]
  /\ UNCHANGED <<nstate, astate, wstate, cstate, slots, is_running, all_slots_data, completed_slots,
                 last_update_time, thread, nruns, submitted, task, result,
                 yielded, cur, ctime, cancelled, termReq, uipc, now, signals,
                 authenticated>>

\* time passes, up to the reading `limit`.
Tick(limit) ==
  /\ now < limit
  /\ now' = now + 1
  /\ UNCHANGED <<nstate, astate, wstate, cstate, slots, is_running, all_slots_data, completed_slots,
                 last_update_time, thread, nruns, cpc, submitted, task,
                 result, yielded, cur, ctime, cancelled, termReq, uipc, signals,
                 authenticated>>

\* ---------------------------------------------- fetch_all_data, by step
\* ThreadPoolExecutor(max_workers=self.max_workers): raises ValueError when
\* max_workers <= 0.
CreatePool(r) ==
  /\ cpc[r] = "started"
  /\ cpc' = [cpc EXCEPT ![r] =
               IF MaxWorkers(slots) <= 0 THEN "except" ELSE "submit"]
  /\ UNCHANGED <<nstate, astate, wstate, cstate, slots, is_running, all_slots_data, completed_slots,
                 last_update_time, thread, nruns, submitted, task, result,
                 yielded, cur, ctime, cancelled, termReq, uipc, now, signals,
                 authenticated>>

\* executor.submit(self.fetch_slot_data, slot) for the next slot.
Submit(r) ==
  /\ cpc[r] = "submit"
  /\ submitted[r] < N
  /\ submitted' = [submitted EXCEPT ![r] = @ + 1]
  /\ task' = [task EXCEPT ![r][submitted[r] + 1] = "queued"]
  /\ cpc' = [cpc EXCEPT ![r] = IF submitted[r] + 1 = N THEN "wait" ELSE "submit"]
  /\ UNCHANGED <<nstate, astate, wstate, cstate, slots, is_running, all_slots_data, completed_slots,
                 last_update_time, thread, nruns, result, yielded, cur, ctime,
                 cancelled, termReq, uipc, now, signals, authenticated>>

\* as_completed yields a finished future it has not yielded yet.
Yield(r, i) ==
  /\ cpc[r] = "wait"
  /\ i \in Done(r) \ yielded[r]
  /\ yielded' = [yielded EXCEPT ![r] = @ \cup {i}]
  /\ cur' = [cur EXCEPT ![r] = i]
  /\ cpc' = [cpc EXCEPT ![r] = "chk"]
  /\ UNCHANGED <<nstate, astate, wstate, cstate, slots, is_running, all_slots_data, completed_slots,
                 last_update_time, thread, nruns, submitted, task, result,
                 ctime, cancelled, termReq, uipc, now, signals,
                 authenticated>>

\* The loop ends as soon as one future has been handled.
LoopEnd_FirstCompleted(r) ==
  /\ cpc[r] = "wait"
  /\ yielded[r] # {}
  /\ cpc' = [cpc EXCEPT ![r] = "shutdown"]
  /\ UNCHANGED <<nstate, astate, wstate, cstate, slots, is_running, all_slots_data, completed_slots,
                 last_update_time, thread, nruns, submitted, task, result,
                 yielded, cur, ctime, cancelled, termReq, uipc, now, signals,
                 authenticated>>

\* as_completed is exhausted: the for loop ends.
LoopEnd(r) ==
  /\ cpc[r] = "wait"
  /\ yielded[r] = Idx
  /\ cpc' = [cpc EXCEPT ![r] = "shutdown"]
  /\ UNCHANGED <<nstate, astate, wstate, cstate, slots, is_running, all_slots_data, completed_slots,
                 last_update_time, thread, nruns, submitted, task, result,
                 yielded, cur, ctime, cancelled, termReq, uipc, now, signals,
                 authenticated>>

\* if not self.is_running: break
CheckRunning(r) ==
  /\ cpc[r] = "chk"
  /\ cpc' = [cpc EXCEPT ![r] = IF is_running THEN "process" ELSE "shutdown"]
  /\ UNCHANGED <<nstate, astate, wstate, cstate, slots, is_running, all_slots_data, completed_slots,
                 last_update_time, thread, nruns, submitted, task, result,
                 yielded, cur, ctime, cancelled, termReq, uipc, now, signals,
                 authenticated>>

\* A failed slot throws away what its siblings stored.
RecordOutcome_ResetOnFailure(d, slot, data) ==
  IF Truthy(data) THEN [d EXCEPT ![slot] = data] ELSE EmptyDict

\* if data: self.all_slots_data[slot] = data
RecordOutcome(d, slot, data) ==
  IF Truthy(data) THEN [d EXCEPT ![slot] = data] ELSE d

\* Every completion is notified.
ShouldEmit_Always(current_time, last, completed, total) == TRUE

\* The throttle alone, without the exception for the last task.
ShouldEmit_ThrottleOnly(current_time, last, completed, total) ==
  current_time - last >= UpdateInterval

\* current_time - self.last_update_time >= self.update_interval
\*   or self.completed_slots == len(self.slots)
ShouldEmit(current_time, last, completed, total) ==
  current_time - last >= UpdateInterval \/ completed = total

\* Where the control thread can be in the loop body, lines 90-104.
LoopBody == {"process", "count", "test", "notify", "stamp"}

\* Lines 90-96: data = future.result(); if data: all_slots_data[slot] = data
\* (an exception of the task is logged). The future and its slot are not
\* read again in this iteration.
StoreResult(r) ==
  /\ cpc[r] = "process"
  /\ all_slots_data' = RecordOutcome(all_slots_data, slots[cur[r]],
                                     result[r][cur[r]])
  /\ cur' = [cur EXCEPT ![r] = 0]
  /\ cpc' = [cpc EXCEPT ![r] = "count"]
  /\ UNCHANGED <<nstate, astate, wstate, cstate, slots, is_running,
                 completed_slots, last_update_time, thread, nruns, submitted,
                 task, result, yielded, ctime, cancelled, termReq, uipc,
                 now, signals, authenticated>>

\* Line 99: self.completed_slots += 1
CountResult(r) ==
  /\ cpc[r] = "count"
  /\ completed_slots' = completed_slots + 1
  /\ cpc' = [cpc EXCEPT ![r] = "test"]
  /\ UNCHANGED <<nstate, astate, wstate, cstate, slots, is_running,
                 all_slots_data, last_update_time, thread, nruns, submitted,
                 task, result, yielded, cur, ctime, cancelled, termReq, uipc,
                 now, signals, authenticated>>

\* Lines 100-102: current_time = time.time() and the test of the throttle;
\* current_time is kept for line 104 when the test lets the completion
\* through, and is not read again otherwise.
TestProgress(r) ==
  /\ cpc[r] = "test"
  /\ IF ShouldEmit(now, last_update_time, completed_slots, N)
     THEN /\ ctime' = [ctime EXCEPT ![r] = now]
          /\ cpc' = [cpc EXCEPT ![r] = "notify"]
     ELSE /\ UNCHANGED ctime
          /\ cpc' = [cpc EXCEPT ![r] = "wait"]
  /\ UNCHANGED <<nstate, astate, wstate, cstate, slots, is_running,
                 all_slots_data, completed_slots, last_update_time, thread,
                 nruns, submitted, task, result, yielded, cur, cancelled,
                 termReq, uipc, now, signals, authenticated>>

\* The notification carrying one less than the count.
NotifyProgress_CountBefore(r) ==
  /\ cpc[r] = "notify"
  /\ Emit(Signal(r, "progress_updated", completed_slots - 1, N, EmptyDict))
  /\ cpc' = [cpc EXCEPT ![r] = "stamp"]
  /\ UNCHANGED <<nstate, astate, wstate, cstate, slots, is_running,
                 all_slots_data, completed_slots, last_update_time, thread,
                 nruns, submitted, task, result, yielded, cur, ctime,
                 cancelled, termReq, uipc, now, authenticated>>

\* Line 103: self.progress_updated.emit(self.completed_slots, len(self.slots))
NotifyProgress(r) ==
  /\ cpc[r] = "notify"
  /\ Emit(Signal(r, "progress_updated", completed_slots, N, EmptyDict))
  /\ cpc' = [cpc EXCEPT ![r] = "stamp"]
  /\ UNCHANGED <<nstate, astate, wstate, cstate, slots, is_running,
                 all_slots_data, completed_slots, last_update_time, thread,
                 nruns, submitted, task, result, yielded, cur, ctime,
                 cancelled, termReq, uipc, now, authenticated>>

\* Line 104: self.last_update_time = current_time; current_time is dead
\* from here on.
StampProgress(r) ==
  /\ cpc[r] = "stamp"
  /\ last_update_time' = ctime[r]
  /\ ctime' = [ctime EXCEPT ![r] = 0]
  /\ cpc' = [cpc EXCEPT ![r] = "wait"]
  /\ UNCHANGED <<nstate, astate, wstate, cstate, slots, is_running,
                 all_slots_data, completed_slots, thread, nruns, submitted,
                 task, result, yielded, cur, cancelled, termReq, uipc, now,
                 signals, authenticated>>

\* Leaving the with block: executor.shutdown(wait=True) returns once every
\* submitted task has run.
Shutdown(r) ==
  /\ cpc[r] = "shutdown"
  /\ Done(r) = Idx
  /\ cpc' = [cpc EXCEPT ![r] = "final_chk"]
  /\ UNCHANGED <<nstate, astate, wstate, cstate, slots, is_running, all_slots_data, completed_slots,
                 last_update_time, thread, nruns, submitted, task, result,
                 yielded, cur, ctime, cancelled, termReq, uipc, now, signals,
                 authenticated>>

\* if self.is_running:
FinalCheck(r) ==
  /\ cpc[r] = "final_chk"
  /\ cpc' = [cpc EXCEPT ![r] = IF is_running THEN "emit" ELSE "finally"]
  /\ UNCHANGED <<nstate, astate, wstate, cstate, slots, is_running, all_slots_data, completed_slots,
                 last_update_time, thread, nruns, submitted, task, result,
                 yielded, cur, ctime, cancelled, termReq, uipc, now, signals,
                 authenticated>>

\* self.all_data_ready.emit(self.all_slots_data)
EmitAllDataReady(r) ==
  /\ cpc[r] = "emit"
  /\ Emit(Signal(r, "all_data_ready", 0, N, all_slots_data))
  /\ cpc' = [cpc EXCEPT ![r] = "finally"]
  /\ UNCHANGED <<nstate, astate, wstate, cstate, slots, is_running, all_slots_data, completed_slots,
                 last_update_time, thread, nruns, submitted, task, result,
                 yielded, cur, ctime, cancelled, termReq, uipc, now, authenticated>>

\* After the error the run goes on to the final check.
EmitError_ThenAggregate(r) ==
  /\ cpc[r] = "except"
  /\ Emit(Signal(r, "error_occurred", 0, N, EmptyDict))
  /\ cpc' = [cpc EXCEPT ![r] = "final_chk"]
  /\ UNCHANGED <<nstate, astate, wstate, cstate, slots, is_running, all_slots_data, completed_slots,
                 last_update_time, thread, nruns, submitted, task, result,
                 yielded, cur, ctime, cancelled, termReq, uipc, now, authenticated>>

\* except Exception: self.error_occurred.emit(error_msg)
EmitError(r) ==
  /\ cpc[r] = "except"
  /\ Emit(Signal(r, "error_occurred", 0, N, EmptyDict))
  /\ cpc' = [cpc EXCEPT ![r] = "finally"]
  /\ UNCHANGED <<nstate, astate, wstate, cstate, slots, is_running, all_slots_data, completed_slots,
                 last_update_time, thread, nruns, submitted, task, result,
                 yielded, cur, ctime, cancelled, termReq, uipc, now, authenticated>>

\* finally: self.is_running = False
Finally(r) ==
  /\ cpc[r] = "finally"
  /\ is_running' = FALSE
  /\ cpc' = [cpc EXCEPT ![r] = "fin_emit"]
  /\ UNCHANGED <<nstate, astate, wstate, cstate, slots, all_slots_data, completed_slots, last_update_time,
                 thread, nruns, submitted, task, result, yielded, cur, ctime,
                 cancelled, termReq, uipc, now, signals, authenticated>>

\* self.finished.emit(); QThread.currentThread().quit()
EmitFinished(r) ==
  /\ cpc[r] = "fin_emit"
  /\ Emit(Signal(r, "finished", 0, N, EmptyDict))
  /\ cpc' = [cpc EXCEPT ![r] = "done"]
  /\ UNCHANGED <<nstate, astate, wstate, cstate, slots, is_running, all_slots_data, completed_slots,
                 last_update_time, thread, nruns, submitted, task, result,
                 yielded, cur, ctime, cancelled, termReq, uipc, now, authenticated>>

\* ------------------------------------------------------ the pool workers
\* A worker takes the oldest queued task; there are at most max_workers
\* workers.
TaskStart(r, i) ==
  /\ task[r][i] = "queued"
  /\ \A j \in Idx : j < i => task[r][j] # "queued"
  /\ Cardinality(Running(r)) < MaxWorkers(slots)
  /\ task' = [task EXCEPT ![r][i] = "running"]
  /\ UNCHANGED <<nstate, astate, wstate, cstate, slots, is_running, all_slots_data, completed_slots,
                 last_update_time, thread, nruns, cpc, submitted, result,
                 yielded, cur, ctime, cancelled, termReq, uipc, now, signals,
                 authenticated>>

\* fetch_slot_data -> get_focused_slot_data -> authenticate(), line 31:
\* if self.authenticated: return True; else the probe GET is sent.
TaskEnter(r, i) ==
  /\ task[r][i] = "running"
  /\ task' = [task EXCEPT ![r][i] = IF authenticated THEN "fetch" ELSE "auth"]
  /\ UNCHANGED <<nstate, astate, wstate, cstate, slots, is_running, all_slots_data, completed_slots,
                 last_update_time, thread, nruns, cpc, submitted, result,
                 yielded, cur, ctime, cancelled, termReq, uipc, now, signals,
                 authenticated>>

\* authenticate(), lines 39-119, of a task that found the flag False: the
\* device answers the probe with one of probeSet and the login POST with one
\* of postSet; the flag is written only when the call succeeds (lines 106,
\* 114). When it fails, get_focused_slot_data returns None and so does
\* fetch_slot_data.
TaskLogin(r, i, probeSet, postSet) ==
  /\ task[r][i] = "auth"
  /\ \E probe \in probeSet :
     \E post \in (IF probe = "login_form" THEN postSet ELSE {"ok"}) :
     LET a == Authenticate(FALSE, probe, post) IN
       IF a.ok
       THEN /\ authenticated' = TRUE
            /\ task' = [task EXCEPT ![r][i] = "fetch"]
            /\ UNCHANGED result
       ELSE /\ UNCHANGED authenticated
            /\ task' = [task EXCEPT ![r][i] = "done"]
            /\ result' = [result EXCEPT ![r][i] =
                            FetchSlotData(FocusedFetch(FALSE, probe, post,
                                                       "neterr", "neterr").value)]
  /\ UNCHANGED <<nstate, astate, wstate, cstate, slots, is_running, all_slots_data, completed_slots,
                 last_update_time, thread, nruns, cpc, submitted, yielded,
                 cur, ctime, cancelled, termReq, uipc, now, signals>>

\* get_focused_slot_data, lines 220-243, once authenticate() has returned
\* True, and the return of fetch_slot_data; the device answers each section
\* GET with one of sectSet.
TaskFinish(r, i, sectSet) ==
  /\ task[r][i] = "fetch"
  /\ \E rdev \in sectSet :
     \E ralarms \in sectSet :
     LET f == FocusedFetch(TRUE, "nologin", "ok", rdev, ralarms) IN
       result' = [result EXCEPT ![r][i] = FetchSlotData(f.value)]
  /\ task' = [task EXCEPT ![r][i] = "done"]
  /\ UNCHANGED <<nstate, astate, wstate, cstate, slots, is_running, all_slots_data, completed_slots,
                 last_update_time, thread, nruns, cpc, submitted, yielded,
                 cur, ctime, cancelled, termReq, uipc, now, signals, authenticated>>

\* One step of a pool worker inside fetch_slot_data.
TaskStep(r, i, probeSet, postSet, sectSet) ==
  \/ TaskEnter(r, i)
  \/ TaskLogin(r, i, probeSet, postSet)
  \/ TaskFinish(r, i, sectSet)

ControlStep(r) ==
  \/ CreatePool(r)
  \/ Submit(r)
  \/ LoopEnd(r)
  \/ CheckRunning(r)
  \/ StoreResult(r)
  \/ CountResult(r)
  \/ TestProgress(r)
  \/ NotifyProgress(r)
  \/ StampProgress(r)
  \/ Shutdown(r)
  \/ FinalCheck(r)
  \/ EmitAllDataReady(r)
  \/ EmitError(r)
  \/ Finally(r)
  \/ EmitFinished(r)

Init ==
  /\ \E n \in 0..MaxSlots : FetcherInit(n)
  /\ authenticated \in BOOLEAN
  /\ ClientIdle
  /\ WorkerIdle

Next ==
  \/ Start(StartsPerInstance)
  \/ StartStep
  \/ StopCall
  \/ StopWaitDone
  \/ StopWaitTimeout
  \/ StopReturn
  \/ Tick(MaxClock)
  \/ \E r \in Runs : Terminated(r)
  \/ \E r \in Runs : ControlStep(r)
  \/ \E r \in Runs, i \in SlotIds : Yield(r, i)
  \/ \E r \in Runs, i \in SlotIds : TaskStart(r, i)
  \/ \E r \in Runs, i \in SlotIds : TaskEnter(r, i)
  \/ \E r \in Runs, i \in SlotIds : TaskLogin(r, i, ProbeResp, PostResp)
  \/ \E r \in Runs, i \in SlotIds : TaskFinish(r, i, SectResp)

Spec == Init /\ [][Next]_vars

\* The same instance started again after stop(): start() is the class's
\* public method and only checks is_running.
RestartInit ==
  /\ \E n \in 0..RestartSlots : FetcherInit(n)
  /\ authenticated \in BOOLEAN
  /\ ClientIdle
  /\ WorkerIdle

RestartNext ==
  \/ Start(MaxRuns)
  \/ StartStep
  \/ StopCall
  \/ StopWaitDone
  \/ StopWaitTimeout
  \/ StopReturn
  \/ \E r \in Runs : Terminated(r)
  \/ \E r \in Runs : EventLoopExit(r)
  \/ \E r \in Runs : ControlStep(r)
  \/ \E r \in Runs, i \in SlotIds : Yield(r, i)
  \/ \E r \in Runs, i \in SlotIds : TaskStart(r, i)
  \/ \E r \in Runs, i \in SlotIds : TaskEnter(r, i)
  \/ \E r \in Runs, i \in SlotIds : TaskLogin(r, i, {"nologin"}, {"ok"})
  \/ \E r \in Runs, i \in SlotIds : TaskFinish(r, i, {"json", "non200"})

RestartSpec == RestartInit /\ [][RestartNext]_vars

\* One instance started once, as in Spec, without the clock, with threads
\* that keep running: the control thread takes its next step, the pool
\* workers start and finish their tasks, as_completed yields what is done,
\* and the waits of stop() return.
LiveNext ==
  \/ Start(StartsPerInstance)
  \/ StartStep
  \/ StopCall
  \/ StopWaitDone
  \/ StopWaitTimeout
  \/ StopReturn
  \/ \E r \in Runs : Terminated(r)
  \/ \E r \in Runs : ControlStep(r)
  \/ \E r \in Runs, i \in SlotIds : Yield(r, i)
  \/ \E r \in Runs, i \in SlotIds : TaskStart(r, i)
  \/ \E r \in Runs, i \in SlotIds : TaskEnter(r, i)
  \/ \E r \in Runs, i \in SlotIds : TaskLogin(r, i, {"nologin"}, {"ok"})
  \/ \E r \in Runs, i \in SlotIds : TaskFinish(r, i, {"json", "non200"})

Fairness ==
  /\ \A r \in Runs : WF_vars(ControlStep(r))
  /\ \A r \in Runs, i \in SlotIds :
       /\ WF_vars(Yield(r, i))
       /\ WF_vars(TaskStart(r, i))
       /\ WF_vars(TaskStep(r, i, {"nologin"}, {"ok"}, {"json", "non200"}))
  /\ WF_vars(StopWaitDone \/ StopWaitTimeout)
  /\ WF_vars(StopReturn)
  /\ WF_vars(StartStep)

LiveSpec == Init /\ [][LiveNext]_vars /\ Fairness

\* The pool of one run over enough slots to fill it: the submission loop of
\* fetch_all_data and the pool workers, on a session that is authenticated
\* (so that no task logs in), against a device that answers every request
\* with JSON. The completion loop that follows the submissions reads and
\* writes nothing of the pool (submitted, task) and no step of a worker waits
\* for it, so it is left to Spec.
PoolInit ==
  /\ \E n \in 0..PoolSlots : FetcherInit(n)
  /\ authenticated = TRUE
  /\ ClientIdle
  /\ WorkerIdle

PoolNext ==
  \/ Start(StartsPerInstance)
  \/ StartStep
  \/ \E r \in Runs : CreatePool(r)
  \/ \E r \in Runs : Submit(r)
  \/ \E r \in Runs, i \in SlotIds : TaskStart(r, i)
  \/ \E r \in Runs, i \in SlotIds : TaskEnter(r, i)
  \/ \E r \in Runs, i \in SlotIds : TaskFinish(r, i, {"json"})

PoolSpec == PoolInit /\ [][PoolNext]_vars

\* One run that is not stopped, over up to three slots and with a clock that
\* reaches twice the update interval, so that a progress notification can
\* follow an earlier one before the final completion; the session is
\* authenticated (no task logs in) and the device answers every request with
\* JSON: lines 99-104 count and time a completion without looking at its
\* outcome, and Spec has the failing tasks and stop().
ThrottleInit ==
  /\ \E n \in 0..ThrottleSlots : FetcherInit(n)
  /\ authenticated = TRUE
  /\ ClientIdle
  /\ WorkerIdle

ThrottleNext ==
  \/ Start(StartsPerInstance)
  \/ StartStep
  \/ Tick(ThrottleClock)
  \/ \E r \in Runs : ControlStep(r)
  \/ \E r \in Runs, i \in SlotIds : Yield(r, i)
  \/ \E r \in Runs, i \in SlotIds : TaskStart(r, i)
  \/ \E r \in Runs, i \in SlotIds : TaskEnter(r, i)
  \/ \E r \in Runs, i \in SlotIds : TaskFinish(r, i, {"json"})

ThrottleSpec == ThrottleInit /\ [][ThrottleNext]_vars

\* The tasks of ClientSpec, on a client that has not authenticated yet.
ClientInit ==
  /\ FetcherInit(0)
  /\ authenticated = FALSE
  /\ ClientIdle
  /\ WorkerIdle

ClientNext ==
  \/ Expire
  \/ \E t \in CTasks :
       \/ Call(t)
       \/ AuthCheck(t)
       \/ AuthProbe(t)
       \/ AuthPost(t)
       \/ AuthSet(t)
       \/ Get(t)
       \/ ReauthReset(t)
       \/ Retry(t)

ClientSpec == ClientInit /\ [][ClientNext]_vars

\* ------------------------- one caller of the client, against any device
\* The caller is the ApiWorker thread running get_slot_data() (and through it
\* _fallback_get_data()), a caller of detect_slots(), or a pool worker running
\* fetch_slot_data(); the device may answer every request in any way.

\* {}: what _fallback_get_data returns when it has nothing, and the body {}.
EmptyObj == [kind |-> "empty", data |-> {}]
\* A parsed body that is false and is neither None nor {}: [], 0, false, "".
FalseJson == [kind |-> "false", data |-> {}]
\* JSON that is true but is not a dict with a non-empty 'data'.
OtherJson == [kind |-> "json", data |-> {}]
\* The parsed data.json: a dict with a non-empty 'data'.
Document == Dict({"data.json"})
\* detect_slots: return [] and return [1], as the caller sees them; a list
\* value carries the set of its elements, the list itself is in wslots.
EmptyList == [kind |-> "list", data |-> {}]
DefaultSlots == [kind |-> "list", data |-> {1}]
ListValue(seq) == [kind |-> "list", data |-> {seq[i] : i \in DOMAIN seq}]

\* The keys detected_coll may have on a device: decimal numerals, one of them
\* with a leading zero, one for zero, and a key that is no numeral.
SlotKeys == {"1", "01", "2", "0", "x"}
\* int(slot_id) raises ValueError
NotInt(k) == k = "x"
\* int(slot_id)
IntOf(k) == CASE k = "1" -> 1
              [] k = "01" -> 1
              [] k = "2" -> 2
              [] k = "0" -> 0
              [] OTHER -> 0

\* sorted([int(slot_id) for slot_id in slot_data.keys()]): one element per
\* key, in ascending order, equal elements kept.
RECURSIVE SortedInts(_)
SortedInts(K) ==
  IF K = {} THEN <<>>
  ELSE LET k == CHOOSE x \in K : \A y \in K : IntOf(x) <= IntOf(y)
       IN  <<IntOf(k)>> \o SortedInts(K \ {k})

\* What detect_slots does at its end: return a list, or let an exception out.
Returned(seq) == [raise |-> FALSE, slots |-> seq]
Raises == [raise |-> TRUE, slots |-> <<>>]

FallbackUrl == "data.json"
DiscoveryUrl == "detected_coll"

\* The messages of ApiWorker.run.
AuthMsg == "Authentication failed. Please check username and password."
InvalidMsg == "Failed to retrieve valid data from the device."
OtherMsg == "Error fetching data: "
ConnMsg == "Connection error. Please check the device IP and network connection."
TimeoutMsg == "Connection timed out. The device might be busy or unreachable."

\* not data
Falsy(v) == v.kind \in {"None", "empty", "false"}

\* Any dict or other JSON passes for content.
HasData_AnyJson(v) == v.kind \in {"dict", "json"}

\* isinstance(data, dict) and data.get('data')
HasData(v) == v.kind = "dict" /\ v.data # {}

\* _fallback_get_data, lines 386-400: the value returned for a response:
\* whatever response.json() gives (line 389: None for null, {} for {}, the
\* false value for [], 0, false, ""), else whatever can be extracted if it
\* is true, else {}.
FallbackValue(resp) ==
  IF ~Status200(resp) THEN EmptyObj
  ELSE IF resp \in {"json", "login_json", "json_nopath", "json_badshape"}
       THEN Document
  ELSE IF resp \in {"json_nodata", "json_scalar"} THEN OtherJson
  ELSE IF resp = "json_empty" THEN EmptyObj
  ELSE IF resp = "json_null" THEN None
  ELSE IF resp = "json_false" THEN FalseJson
  ELSE IF resp = "embedded_nodata" THEN OtherJson
  ELSE IF Extracted(resp) THEN Document
  ELSE EmptyObj

\* detect_slots, lines 150-196: what a response whose detected_coll has the
\* keys `keys` leads to. Around response.json() only JSONDecodeError is
\* caught, so the ValueError of int(), the TypeError of `in` or [] on a value
\* that is no container and the AttributeError of .keys() leave the call;
\* around the extracted JSON every exception is caught and [1] is returned.
DetectValue(resp, keys) ==
  IF ~Status200(resp) THEN Returned(<<1>>)
  ELSE IF resp \in {"json", "login_json"}
       THEN IF \E k \in keys : NotInt(k) THEN Raises
            ELSE Returned(SortedInts(keys))
  ELSE IF resp \in {"json_scalar", "json_badshape"} THEN Raises
  ELSE IF JsonParses(resp) THEN Returned(<<1>>)
  ELSE IF resp \in {"embedded_nodata", "embedded_badshape"}
       THEN Returned(<<1>>)
  ELSE IF Extracted(resp)
       THEN IF \E k \in keys : NotInt(k) THEN Returned(<<1>>)
            ELSE Returned(SortedInts(keys))
  ELSE Returned(<<1>>)

\* The caller is in the section loop of get_slot_data.
InSections == wcall = "full" /\ wsect <= Len(AllSections)

\* The URL of the current request.
CurUrl ==
  IF wcall = "discovery" THEN DiscoveryUrl
  ELSE IF wcall = "focused" THEN FocusedSections[wsect]
  ELSE IF wsect <= Len(AllSections) THEN AllSections[wsect]
  ELSE FallbackUrl

\* What the device may answer to the current request.
RespOf == IF InSections \/ wcall = "focused" THEN FullResp ELSE DocResp

\* The keys of detected_coll in an answer to the discovery request: any, when
\* the answer holds the document.
KeysOf(resp) ==
  IF wcall = "discovery" /\ resp \in {"json", "login_json", "embedded",
                                       "login_embedded"}
  THEN SUBSET SlotKeys
  ELSE {{}}

\* The current request is over and nothing of it is kept.
NoRequest ==
  /\ csent' = 0
  /\ creauth' = 0
  /\ cposts' = 0
  /\ cfirst' = "none"
  /\ clast' = "none"

\* The fallback is tried after every fetch, whatever it stored.
Advance_AlwaysFallback(data) ==
  /\ NoRequest
  /\ wret' = wret
  /\ wpc' = "get"
  /\ wsect' = wsect + 1

\* get_slot_data: the next section; after the last one, lines 323-331:
\* _fallback_get_data() if nothing was stored, else return combined_data.
Advance(data) ==
  IF wsect < Len(AllSections)
  THEN /\ NoRequest
       /\ wret' = wret
       /\ wpc' = "get"
       /\ wsect' = wsect + 1
  ELSE IF data = {}
  THEN /\ NoRequest
       /\ wret' = wret
       /\ wpc' = "get"
       /\ wsect' = wsect + 1
  ELSE /\ UNCHANGED <<csent, creauth, cposts, cfirst, clast>>
       /\ wret' = Dict(data)
       /\ wpc' = "ret"
       /\ wsect' = wsect

\* The current request is dealt with: in the section loop the loop goes on
\* with `data` stored, and get_focused_slot_data returns after its last
\* section (lines 238-243: None if nothing was stored, else combined_data);
\* _fallback_get_data returns vFallback and detect_slots ends as vDiscovery
\* says.
Complete(data, vFallback, vDiscovery) ==
  IF InSections
  THEN /\ wdata' = data
       /\ wslots' = wslots
       /\ Advance(data)
  ELSE IF wcall = "focused"
  THEN /\ wdata' = data
       /\ wslots' = wslots
       /\ IF wsect < Len(FocusedSections)
          THEN /\ NoRequest
               /\ wret' = wret
               /\ wpc' = "get"
               /\ wsect' = wsect + 1
          ELSE /\ UNCHANGED <<csent, creauth, cposts, cfirst, clast, wsect>>
               /\ wret' = (IF data = {} THEN None ELSE Dict(data))
               /\ wpc' = "ret"
  ELSE /\ UNCHANGED <<wdata, wsect, csent, creauth, cposts, cfirst, clast>>
       /\ wret' = (IF wcall # "discovery" THEN vFallback
                   ELSE IF vDiscovery.raise THEN Raise
                   ELSE ListValue(vDiscovery.slots))
       /\ wslots' = (IF wcall = "discovery" THEN vDiscovery.slots ELSE wslots)
       /\ wpc' = "ret"

\* An exception that no except clause of the client catches.
Raised ==
  /\ UNCHANGED <<wdata, wsect, csent, creauth, cposts, cfirst, clast, wslots>>
  /\ wret' = Raise
  /\ wpc' = "ret"

\* The responses that are neither a login page nor an exception, and those
\* among them that carry the section.
CleanResp == {"json", "embedded", "garbage", "non200", "neterr"}
Succeeded(resp) == resp \in {"json", "embedded"}

\* The history of the section loop: which sections the device has served.
Observe(resp) ==
  LET clean == wclean /\ (InSections => resp \in CleanResp) IN
    /\ wclean' = clean
    /\ wok' = IF ~clean THEN {}
              ELSE IF InSections /\ Succeeded(resp) THEN wok \cup {CurUrl}
              ELSE wok

\* ApiWorker.run, lines 17-24: if not self.running: return; else
\* data = self.client.get_slot_data(self.slot)
WorkerRun ==
  /\ wpc = "idle"
  /\ wcall' = "full"
  /\ wpc' = IF wrunning THEN "entry" ELSE "done"
  /\ UNCHANGED <<nstate, astate, fstate, cstate, authenticated, wsect, wdata, wok, wclean,
                 csent, creauth, cposts, cfirst, clast, wfailed, wret, wsig,
                 wrunning, wlog,
                 dstate, wentryfail>>

\* SlotDetectionWorker.run with use_direct_api True, lines 98-106: if not
\* self.running: return; else self.client.detect_slots_direct(...), a method
\* DeviceApiClient does not have: AttributeError.
DetectDirect ==
  /\ wpc = "idle"
  /\ wcall' = "direct"
  /\ wpc' = IF wrunning THEN "ret" ELSE "done"
  /\ wret' = IF wrunning THEN Raise ELSE wret
  /\ UNCHANGED <<nstate, astate, fstate, cstate, authenticated, wsect, wdata, wok, wclean,
                 csent, creauth, cposts, cfirst, clast, wfailed, wsig,
                 wrunning, wlog, dstate, wentryfail>>

\* SlotDetectionWorker.run with use_direct_api False, lines 98-108: if not
\* self.running: return; else client.detect_slots() is called, against a
\* device whose slots devSlots answer a per-slot request.
DetectCall ==
  /\ wpc = "idle"
  /\ wcall' = "discovery"
  /\ wpc' = IF wrunning THEN "entry" ELSE "done"
  /\ devSlots' \in SUBSET (1..ProbeSlots)
  /\ UNCHANGED <<nstate, astate, fstate, cstate, authenticated, wsect, wdata, wok, wclean,
                 csent, creauth, cposts, cfirst, clast, wfailed, wret, wsig,
                 wrunning, wlog, wkeys, wslots, wentryfail>>

\* ApiWorker.stop(), SlotDetectionWorker.stop(): self.running = False
WorkerStop ==
  /\ wcall \in {"none", "full", "discovery", "direct"}
  /\ wrunning
  /\ wrunning' = FALSE
  /\ UNCHANGED <<nstate, astate, fstate, cstate, authenticated, wpc, wcall, wsect, wdata, wok,
                 wclean, csent, creauth, cposts, cfirst, clast, wfailed, wret,
                 wsig, wlog,
                 dstate, wentryfail>>

\* if not self.authenticate(): return None (detect_slots: return [])
EntryAuth ==
  /\ wpc = "entry"
  /\ \E probe \in (IF authenticated THEN {"nologin"} ELSE ProbeResp) :
     \E post \in (IF ~authenticated /\ probe = "login_form"
                  THEN PostResp ELSE {"ok"}) :
     LET a == Authenticate(authenticated, probe, post) IN
       /\ authenticated' = a.auth
       /\ wpc' = IF a.ok THEN "get" ELSE "ret"
       /\ wret' = IF a.ok THEN wret
                  ELSE IF wcall = "discovery" THEN EmptyList ELSE None
       /\ wentryfail' = AuthCause(authenticated, probe, post)
  /\ UNCHANGED <<nstate, astate, fstate, cstate, wcall, wsect, wdata, wok, wclean, csent,
                 creauth, cposts, cfirst, clast, wfailed, wsig, wrunning,
                 wlog, dstate>>

\* response = self.session.get(url): the first GET of a request.
SendGet ==
  /\ wpc = "get"
  /\ \E resp \in RespOf :
       /\ cfirst' = resp
       /\ clast' = resp
       /\ wkeys' \in KeysOf(resp)
  /\ csent' = 1
  /\ wlog' = wlog \cup {[by |-> wcall, url |-> CurUrl]}
  /\ wpc' = "got"
  /\ UNCHANGED <<nstate, astate, fstate, cstate, authenticated, wcall, wsect, wdata, wok,
                 wclean, creauth, cposts, wfailed, wret, wsig, wrunning,
                 devSlots, wslots, wentryfail>>

\* The response is looked at: an exception leaves the call, a transport
\* error ends the request, the login indication on the first response starts
\* the re-authentication (get_focused_slot_data does not look for it),
\* anything else is parsed (lines 293-308, 225-233, 386-400, 150-196).
HandleResponse ==
  /\ wpc = "got"
  /\ IF clast = "exception" THEN Raised
     ELSE IF clast = "neterr" THEN Complete(wdata, EmptyObj, Returned(<<1>>))
     ELSE IF wcall # "focused" /\ csent = 1 /\ LoginIndicated(clast)
     THEN /\ wpc' = "reauth"
          /\ UNCHANGED <<wsect, wdata, wret, csent, creauth, cposts, cfirst,
                         clast, wslots>>
     ELSE Complete(IF (IF wcall = "focused" THEN FocusedStores(clast)
                       ELSE SectionStores(clast))
                   THEN wdata \cup {CurUrl}
                   ELSE wdata,
                   FallbackValue(clast), DetectValue(clast, wkeys))
  /\ Observe(clast)
  /\ UNCHANGED <<nstate, astate, fstate, cstate, authenticated, wcall, wfailed, wsig,
                 wrunning, wlog, wkeys, devSlots, wentryfail>>

\* self.authenticated = False (lines 285, 378, 142), written before
\* authenticate() waits for the device.
ReauthInvalidate ==
  /\ wpc = "reauth"
  /\ authenticated
  /\ authenticated' = FALSE
  /\ UNCHANGED <<nstate, astate, fstate, cstate, wcall, wpc, wsect, wdata, wok, wclean, csent,
                 creauth, cposts, cfirst, clast, wfailed, wret, wsig,
                 wrunning, wlog, dstate, wentryfail>>

\* self.authenticate(), the flag being False: the probe, the login POST and
\* the flag they leave.
Reauth ==
  /\ wpc = "reauth"
  /\ ~authenticated
  /\ \E probe \in ProbeResp :
     \E post \in (IF probe = "login_form" THEN PostResp ELSE {"ok"}) :
     LET a == Authenticate(FALSE, probe, post) IN
       /\ authenticated' = a.auth
       /\ cposts' = cposts + (IF probe = "login_form" THEN 1 ELSE 0)
       /\ wpc' = IF a.ok THEN "retry" ELSE "reauth_failed"
  /\ creauth' = creauth + 1
  /\ UNCHANGED <<nstate, astate, fstate, cstate, wcall, wsect, wdata, wok, wclean, csent,
                 cfirst, clast, wfailed, wret, wsig, wrunning, wlog,
                 dstate, wentryfail>>

\* logger.error("Re-authentication failed"); continue
\* (_fallback_get_data: return {}; detect_slots: return [])
ReauthFailed ==
  /\ wpc = "reauth_failed"
  /\ wfailed' = TRUE
  /\ Complete(wdata, EmptyObj, Returned(<<>>))
  /\ UNCHANGED <<nstate, astate, fstate, cstate, authenticated, wcall, wok, wclean, wsig,
                 wrunning, wlog, wkeys, devSlots, wentryfail>>

\* The retry asks again whenever the answer shows the login page.
RetryGet_UntilNoLogin ==
  /\ wpc = "retry"
  /\ \E resp \in RespOf :
       /\ clast' = resp
       /\ wkeys' \in KeysOf(resp)
  /\ csent' = 1
  /\ wlog' = wlog \cup {[by |-> wcall, url |-> CurUrl]}
  /\ wpc' = "got"
  /\ UNCHANGED <<nstate, astate, fstate, cstate, authenticated, wcall, wsect, wdata, wok,
                 wclean, creauth, cposts, cfirst, wfailed, wret, wsig,
                 wrunning,
                 devSlots, wslots, wentryfail>>

\* Retry the request: response = self.session.get(url), once.
RetryGet ==
  /\ wpc = "retry"
  /\ \E resp \in RespOf :
       /\ clast' = resp
       /\ wkeys' \in KeysOf(resp)
  /\ csent' = csent + 1
  /\ wlog' = wlog \cup {[by |-> wcall, url |-> CurUrl]}
  /\ wpc' = "got"
  /\ UNCHANGED <<nstate, astate, fstate, cstate, authenticated, wcall, wsect, wdata, wok,
                 wclean, creauth, cposts, cfirst, wfailed, wret, wsig,
                 wrunning,
                 devSlots, wslots, wentryfail>>

ErrorSignal(msg) == [sig |-> "error", msg |-> msg, data |-> None]
DataReady(v) == [sig |-> "dataReady", msg |-> "", data |-> v]
\* self.slotsDetected.emit(slots)
SlotsDetected(seq) == [sig |-> "slotsDetected", msg |-> "", data |-> ListValue(seq)]
\* f"Error detecting slots: {str(e)}"
DetectMsg == "Error detecting slots: "

\* The run goes on to its signal whether or not stop() was called.
WorkerCheck_IgnoreStop ==
  /\ wpc = "ret"
  /\ wcall = "full"
  /\ wpc' = "emit"
  /\ UNCHANGED <<nstate, astate, fstate, cstate, authenticated, wcall, wsect, wdata, wok,
                 wclean, csent, creauth, cposts, cfirst, clast, wfailed, wret,
                 wsig, wrunning, wlog, dstate, wentryfail>>

\* ApiWorker.run once get_slot_data has returned or raised: if not
\* self.running: return (line 26, and lines 45, 51, 57, 68, 74 in the
\* handlers).
WorkerCheck ==
  /\ wpc = "ret"
  /\ wcall = "full"
  /\ wpc' = IF wrunning THEN "emit" ELSE "done"
  /\ UNCHANGED <<nstate, astate, fstate, cstate, authenticated, wcall, wsect, wdata, wok,
                 wclean, csent, creauth, cposts, cfirst, clast, wfailed, wret,
                 wsig, wrunning, wlog, dstate, wentryfail>>

\* ApiWorker.run after that test, lines 30-42 and 76-78: the signal, whatever
\* self.running has become.
WorkerFinish ==
  /\ wpc = "emit"
  /\ wcall = "full"
  /\ wsig' = IF wret = Raise THEN Append(wsig, ErrorSignal(OtherMsg))
             ELSE IF Falsy(wret) THEN Append(wsig, ErrorSignal(AuthMsg))
             ELSE IF ~HasData(wret) THEN Append(wsig, ErrorSignal(InvalidMsg))
             ELSE Append(wsig, DataReady(wret))
  /\ wpc' = "done"
  /\ UNCHANGED <<nstate, astate, fstate, cstate, authenticated, wcall, wsect, wdata, wok,
                 wclean, csent, creauth, cposts, cfirst, clast, wfailed, wret,
                 wrunning, wlog, dstate, wentryfail>>

\* What the discovery call of SlotDetectionWorker has come to.
DetectResult == IF wret = Raise THEN Raises ELSE Returned(wslots)

\* SlotDetectionWorker.run, lines 105-120: the signals of an unstopped run in
\* either mode, the client's detect_slots ending as `res`.
DetectOutcome(direct, res) ==
  IF direct \/ res.raise THEN <<ErrorSignal(DetectMsg)>>
  ELSE <<SlotsDetected(res.slots)>>

\* SlotDetectionWorker.run once the client call has returned or raised: if
\* not self.running: return (lines 110 and 116).
DetectCheck ==
  /\ wpc = "ret"
  /\ wcall \in {"discovery", "direct"}
  /\ wpc' = IF wrunning THEN "emit" ELSE "done"
  /\ UNCHANGED <<nstate, astate, fstate, cstate, authenticated, wcall, wsect, wdata, wok,
                 wclean, csent, creauth, cposts, cfirst, clast, wfailed, wret,
                 wsig, wrunning, wlog, dstate, wentryfail>>

\* SlotDetectionWorker.run after that test, lines 113-114 and 118-120: the
\* signal, whatever self.running has become.
DetectReturn ==
  /\ wpc = "emit"
  /\ wcall \in {"discovery", "direct"}
  /\ wsig' = wsig \o DetectOutcome(wcall = "direct", DetectResult)
  /\ wpc' = "done"
  /\ UNCHANGED <<nstate, astate, fstate, cstate, authenticated, wcall, wsect, wdata, wok,
                 wclean, csent, creauth, cposts, cfirst, clast, wfailed, wret,
                 wrunning, wlog, dstate, wentryfail>>

\* A pool worker runs fetch_slot_data(slot), which calls
\* get_focused_slot_data(slot): authenticate() first, then the GETs of dev
\* and alarms, each a wait for the device.
FetchSlotCall ==
  /\ wpc = "idle"
  /\ wcall' = "focused"
  /\ wpc' = "entry"
  /\ UNCHANGED <<nstate, astate, fstate, cstate, authenticated, wsect, wdata, wok, wclean,
                 csent, creauth, cposts, cfirst, clast, wfailed, wret, wsig,
                 wrunning, wlog, dstate, wentryfail>>

\* fetch_slot_data once get_focused_slot_data has returned or raised, lines
\* 132-141: the test of the value, and None for an exception.
FetchSlotReturn ==
  /\ wpc = "ret"
  /\ wcall = "focused"
  /\ wret' = FetchSlotData(wret)
  /\ wpc' = "done"
  /\ UNCHANGED <<nstate, astate, fstate, cstate, authenticated, wcall, wsect, wdata, wok,
                 wclean, csent, creauth, cposts, cfirst, clast, wfailed, wsig,
                 wrunning, wlog, dstate, wentryfail>>

WorkerInit ==
  /\ FetcherInit(0)
  /\ ClientIdle
  /\ WorkerIdle
  /\ authenticated \in BOOLEAN

WorkerNext ==
  \/ WorkerRun
  \/ DetectCall
  \/ DetectDirect
  \/ FetchSlotCall
  \/ WorkerStop
  \/ EntryAuth
  \/ SendGet
  \/ HandleResponse
  \/ ReauthInvalidate
  \/ Reauth
  \/ ReauthFailed
  \/ RetryGet
  \/ FetchSlotReturn
  \/ WorkerCheck
  \/ WorkerFinish
  \/ DetectCheck
  \/ DetectReturn

WorkerSpec == WorkerInit /\ [][WorkerNext]_vars

\* ------------------------------------------- authenticate(), step by step
\* authenticate() is called by threads that share one client, against a
\* device that may answer the probe and the login POST in any way and whose
\* login form may or may not name its inputs. A call is at a wait while its
\* probe GET (line 39) or its login POST (line 89) is in flight, and the
\* other threads run meanwhile. `login` says whether a probe response whose
\* status is not 200 shows the login page (authenticate() does not look).
Callers == 1..MaxAuthCalls

\* Lines 31-39: if self.authenticated: return True; else the probe is sent.
AuthEnter(c) ==
  /\ acall[c].pc = "idle"
  /\ acall' = [acall EXCEPT ![c] =
       IF authenticated
       THEN [NoCall EXCEPT
               !.pc = "done", !.made = TRUE, !.before = TRUE,
               !.ok = Authenticate(TRUE, NoCall.probe, NoCall.post).ok,
               !.after = authenticated,
               !.cause = AuthCause(TRUE, NoCall.probe, NoCall.post),
               !.reqs = AuthRequests(TRUE, NoCall.probe, NoField, NoField, {}),
               !.responses = AuthResponses(TRUE, NoCall.probe, NoCall.post)]
       ELSE [NoCall EXCEPT
               !.pc = "probe", !.made = TRUE,
               !.reqs = AuthRequests(FALSE, NoCall.probe, NoField, NoField,
                                     {})]]
  /\ UNCHANGED <<nstate, fstate, cstate, wstate, authenticated>>

\* Lines 39-89 and 111-119: the probe is answered. A login page with a form
\* has the login POST sent; any other answer ends the call, the flag being
\* assigned (line 114) only when the call succeeds.
AuthProbed(c) ==
  /\ acall[c].pc = "probe"
  /\ \E probe \in ProbeResp :
     \E login \in (IF probe = "non200" THEN BOOLEAN ELSE {FALSE}) :
       IF probe = "login_form"
       THEN /\ \E text \in TextNames, pass \in PassNames,
                  hidden \in SUBSET HiddenNames :
                 acall' = [acall EXCEPT ![c] =
                   [@ EXCEPT !.pc = "post", !.probe = probe, !.text = text,
                             !.pass = pass, !.hidden = hidden,
                             !.reqs = AuthRequests(FALSE, probe, text, pass,
                                                   hidden),
                             !.responses = 1]]
            /\ UNCHANGED authenticated
       ELSE LET a == Authenticate(FALSE, probe, NoCall.post) IN
            /\ authenticated' = (IF a.ok THEN TRUE ELSE authenticated)
            /\ acall' = [acall EXCEPT ![c] =
                 [@ EXCEPT !.pc = "done", !.probe = probe, !.login = login,
                           !.ok = a.ok, !.wrote = a.ok,
                           !.after = authenticated',
                           !.cause = AuthCause(FALSE, probe, NoCall.post),
                           !.responses = AuthResponses(FALSE, probe,
                                                       NoCall.post)]]
  /\ UNCHANGED <<nstate, fstate, cstate, wstate>>

\* Lines 89-110 and 117-119: the login POST is answered; the flag is assigned
\* (line 106) only when the call succeeds.
AuthPosted(c) ==
  /\ acall[c].pc = "post"
  /\ \E post \in PostResp :
       LET a == Authenticate(FALSE, acall[c].probe, post) IN
       /\ authenticated' = (IF a.ok THEN TRUE ELSE authenticated)
       /\ acall' = [acall EXCEPT ![c] =
            [@ EXCEPT !.pc = "done", !.post = post, !.ok = a.ok,
                      !.wrote = a.ok, !.after = authenticated',
                      !.cause = AuthCause(FALSE, acall[c].probe, post),
                      !.responses = AuthResponses(FALSE, acall[c].probe,
                                                  post)]]
  /\ UNCHANGED <<nstate, fstate, cstate, wstate>>

\* self.authenticated = False: a caller saw the login indication.
AuthInvalidate ==
  /\ authenticated
  /\ authenticated' = FALSE
  /\ UNCHANGED <<nstate, fstate, cstate, wstate, astate>>

AuthInit ==
  /\ FetcherInit(0)
  /\ ClientIdle
  /\ WorkerIdle
  /\ authenticated \in BOOLEAN

AuthNext ==
  \/ \E c \in Callers : AuthEnter(c)
  \/ \E c \in Callers : AuthProbed(c)
  \/ \E c \in Callers : AuthPosted(c)
  \/ AuthInvalidate

AuthSpec == AuthInit /\ [][AuthNext]_vars

\* ------------------------------------------- DeviceData, payload by payload
\* What a device may report for each section: nothing, the whole section, or
\* a section that lacks some of its keys. Each is a set with no element (the
\* section is missing) or one.
ProductOpts ==
  {{},
   {[n \in {"prodname", "serialfull", "swver", "swbuildtime"} |->
       CASE n = "prodname" -> "VirtX"
         [] n = "serialfull" -> "SN-0001"
         [] n = "swver" -> "1.2.3"
         [] OTHER -> "2024-01-01"]},
   {Obj("prodname", "VirtX")}}
TimeOpts ==
  {{},
   {[n \in {"localtimetxt", "uptimetxt"} |->
       IF n = "localtimetxt" THEN "12:00:00" ELSE "3 days"]},
   {Obj("uptimetxt", "3 days")}}
MemOpts ==
  {{},
   {[n \in {"threshold", "pool_coll"} |->
       IF n = "threshold" THEN "80" ELSE EmptyJson]},
   {Obj("pool_coll", EmptyJson)}}
\* alarms.status: with all severities, with some, with counts and no
\* severities, or empty.
StatusOpts ==
  {{},
   {Obj("severities", [n \in AlarmKeys |->
                         IF n = "n_total" THEN "int:3" ELSE "int:1"])},
   {Obj("severities", Obj("n_total", "int:3"))},
   {[n \in {"active_count", "critical_count"} |->
       IF n = "active_count" THEN "int:3" ELSE "int:1"]},
   {EmptyJson}}

\* {key: the section} when the section is reported, else {}.
Section(key, opt) ==
  IF opt = {} THEN EmptyJson ELSE Obj(key, CHOOSE d \in opt : TRUE)

\* The documented shapes of a payload, and one that is none of them.
DocumentedShapes == {"flat", "device_info", "nested"}
Shapes == DocumentedShapes \cup {"unrecognized"}

\* The payload of a shape that holds the sections `dev` and the alarm
\* section `alarms`: flat is data.dev.*, nested is data.dev.data.dev.*, and
\* the device_info shape has the alarms beside device_info, where
\* _extract_alarm_info looks for them.
Payload(shape, dev, alarms) ==
  CASE shape = "flat" -> Obj("data", Obj("dev", Merge(dev, alarms)))
    [] shape = "nested" ->
         Obj("data", Obj("dev", Obj("data", Obj("dev", Merge(dev, alarms)))))
    [] shape = "device_info" -> Merge(Obj("device_info", dev), alarms)
    [] OTHER -> Obj("info", Merge(dev, alarms))

\* main_window.py: device_data = DeviceData(data), for the same sections in
\* each shape.
Normalize ==
  /\ \E product \in ProductOpts, time \in TimeOpts, mem \in MemOpts,
        status \in StatusOpts :
       LET dev == Merge(Merge(Section("product_info", product),
                              Section("time", time)),
                        Section("mem_usage", mem))
           alarms == IF status = {} THEN EmptyJson
                     ELSE Obj("alarms", Section("status", status))
       IN  /\ nunder' = Merge(dev, alarms)
           /\ nraw' = [sh \in Shapes |-> Payload(sh, dev, alarms)]
           /\ nview' = [sh \in Shapes |->
                          DeviceData(Payload(sh, dev, alarms))]
  /\ UNCHANGED <<fstate, authenticated, cstate, wstate, astate>>

DataInit ==
  /\ FetcherInit(0)
  /\ ClientIdle
  /\ WorkerIdle
  /\ authenticated = FALSE

DataNext == Normalize

DataSpec == DataInit /\ [][DataNext]_vars

\* ================================================================ claims
SigIdx == DOMAIN signals
Requested == {slots[i] : i \in Idx}
\* The all_data_ready emissions of run r, and its progress notifications
\* with completed == total.
Ready(r) == {k \in SigIdx : signals[k].run = r /\ signals[k].sig = "all_data_ready"}
Errors(r) == {k \in SigIdx : signals[k].run = r /\ signals[k].sig = "error_occurred"}
FinalProgress(r) ==
  {k \in SigIdx : /\ signals[k].run = r
                  /\ signals[k].sig = "progress_updated"
                  /\ signals[k].cur = signals[k].total}
\* Emissions made when stop() had not cleared the flag during the run.
Uncancelled(k) == ~signals[k].cancelled
\* The run's control thread can still touch the results or emit them.
Active(r) ==
  cpc[r] \in {"started", "submit", "wait", "chk", "shutdown", "final_chk",
              "emit", "except"} \cup LoopBody

\* C1 (as claimed): all_data_ready is never emitted for a run after stop()
\* has cancelled it.
C1_NoAggregateAfterCancel ==
  \A k \in SigIdx : signals[k].sig = "all_data_ready" => Uncancelled(k)

\* C2 (as claimed): while the device keeps the session, the tasks that
\* authenticate concurrently POST the login form at most once and the flag
\* goes from False to True at most once.
C2_LoginOnce ==
  expiries = 0 => posts <= 1 /\ authSets <= 1

\* C3 (as claimed): while a task is inside the re-authentication section no
\* other task is inside it, and no other task takes a step on the client
\* (each such step reads or writes authenticated or sends a request).
C3_ReauthExclusive ==
  [][\A t \in CTasks : InReauth(t) =>
       \A u \in CTasks \ {t} :
         /\ ~InReauth(u)
         /\ (tpc'[u] # tpc[u] => tpc[u] = "idle")]_vars

\* C4 (as claimed): the aggregate of an uncancelled run has an entry for
\* every requested slot.
C4_EntryForEverySlot ==
  \A k \in SigIdx :
    signals[k].sig = "all_data_ready" /\ Uncancelled(k)
      => Keys(signals[k].data) = Requested

\* C5: a slot whose fetch fails aborts nothing: when an uncancelled run over
\* at least one slot has finished, every task has run, every payload a
\* sibling returned is in the aggregate emitted, and the run emitted
\* all_data_ready once and error_occurred never.
C5_FailureAbsorbed ==
  \A r \in Runs :
    cpc[r] = "done" /\ ~cancelled[r] /\ N >= 1
      => /\ Done(r) = Idx
         /\ Errors(r) = {}
         /\ Cardinality(Ready(r)) = 1
         /\ \A k \in Ready(r) : \A i \in Idx :
              Truthy(result[r][i]) => signals[k].data[slots[i]] = result[r][i]

\* C5 witness: a finished uncancelled run in which one slot failed and
\* another succeeded, with the aggregate emitted.
C5_Witness ==
  \E r \in Runs :
    /\ cpc[r] = "done" /\ ~cancelled[r]
    /\ \E i, j \in Idx : ~Truthy(result[r][i]) /\ Truthy(result[r][j])
    /\ \E k \in Ready(r) : Keys(signals[k].data) # {}

\* start() is past its test of is_running and has not returned.
Starting == uipc \in {"start_data", "start_count", "start_time", "start_thread"}

\* C6 (as claimed): at most one execution of fetch_all_data is active on the
\* instance, and no start() takes effect while one is active: all_slots_data
\* and completed_slots are not reset and no further QThread is started.
C6_OneActiveRun ==
  /\ Cardinality({r \in Runs : Active(r)}) <= 1
  /\ (\E r \in Runs : Active(r)) => ~Starting

\* C7: one task is submitted per element of the slot sequence, in order, and
\* at most min(8, |S|) tasks of a run execute at the same time.
C7_PoolBound ==
  \A r \in Runs :
    /\ Cardinality(Running(r)) <= Min(PoolCap, N)
    /\ submitted[r] <= N
    /\ {i \in SlotIds : task[r][i] # "unsubmitted"} = 1..submitted[r]
    /\ cpc[r] \in {"wait", "chk", "shutdown", "final_chk", "emit"} \cup LoopBody
         => submitted[r] = N

\* C7 witness: nine slots, eight tasks executing, the ninth waiting.
C7_Witness ==
  \E r \in Runs :
    /\ N > PoolCap
    /\ Cardinality(Running(r)) = PoolCap
    /\ \E i \in Idx : task[r][i] = "queued"

\* C8: an uncancelled run emits the notification with completed == total at
\* most once, and has emitted it exactly once before its all_data_ready.
C8_FinalProgressOnce ==
  \A r \in Runs :
    /\ ~cancelled[r] => Cardinality(FinalProgress(r)) <= 1
    /\ \A k \in Ready(r) :
         Uncancelled(k) =>
           /\ Cardinality(FinalProgress(r)) = 1
           /\ \A j \in FinalProgress(r) : j < k

\* C8 witness: two slots finished inside one throttle interval: the first
\* completion emitted nothing, the last one emitted 2 of 2, then the aggregate.
C8_Witness ==
  /\ N = 2
  /\ Len(signals) >= 2
  /\ signals[1].sig = "progress_updated" /\ signals[1].cur = 2
  /\ signals[2].sig = "all_data_ready" /\ Uncancelled(2)

\* C9: a run that is not cancelled and raises no error emits all_data_ready
\* exactly once, and only when every submitted task has finished and has been
\* handled by the loop.
C9_AggregateOnceAfterAll ==
  \A r \in Runs :
    /\ Cardinality(Ready(r)) <= 1
    /\ \A k \in Ready(r) :
         Uncancelled(k) =>
           /\ Done(r) = Idx
           /\ yielded[r] = Idx
           /\ completed_slots = N
    /\ cpc[r] \in {"finally", "fin_emit", "done"} /\ ~cancelled[r] /\ Errors(r) = {}
         => Cardinality(Ready(r)) = 1

\* C9 witness: a finished uncancelled run over MaxSlots slots with its
\* aggregate emitted.
C9_Witness ==
  \E r \in Runs :
    /\ cpc[r] = "done" /\ ~cancelled[r] /\ N >= 2
    /\ Cardinality(Ready(r)) = 1

\* C10 (as claimed): once stop() has cleared the flag, nothing more is
\* written into all_slots_data and no further progress_updated is emitted.
C10_DiscardAfterStop ==
  [][(\E r \in Runs : cancelled[r]) =>
       /\ all_slots_data' = all_slots_data
       /\ (Len(signals') > Len(signals)
             => signals'[Len(signals')].sig # "progress_updated")]_vars

\* C11 (as claimed): once stop() has cancelled a run, no fetch task of that
\* run that had not started begins to execute.
C11_NoDispatchAfterStop ==
  [][\A r \in Runs, i \in SlotIds :
       cancelled[r] /\ task[r][i] # "running" => task'[r][i] # "running"]_vars

\* C12: a run whose pool cannot be created (empty slot sequence, pool size 0)
\* emits error_occurred once, exactly once by the time it reaches its finally
\* block, and never all_data_ready; no run emits both.
C12_PoolFailureOneError ==
  \A r \in Runs :
    /\ Errors(r) # {} => Ready(r) = {} /\ Cardinality(Errors(r)) = 1
    /\ N = 0 => Ready(r) = {}
    /\ N = 0 /\ cpc[r] \in {"finally", "fin_emit", "done"}
         => Cardinality(Errors(r)) = 1

\* C12 witness: a finished run over an empty slot sequence with its one error.
C12_Witness ==
  \E r \in Runs :
    /\ N = 0 /\ cpc[r] = "done"
    /\ Cardinality(Errors(r)) = 1
    /\ Ready(r) = {}

\* C13 (as claimed): once stop() has returned, the control thread of the run
\* it cancelled has ended and no task of that run is executing or queued.
C13_NothingOutlivesStop ==
  \A r \in Runs :
    cancelled[r] /\ uipc = "idle"
      => /\ ~ThreadRunning(r)
         /\ \A i \in Idx : task[r][i] \notin {"queued"} \cup Executing

\* A request of get_slot_data, _fallback_get_data or detect_slots ends in the
\* step: the section loop goes on to the next request, or the call returns.
RequestEnds ==
  /\ wcall \in {"full", "discovery"}
  /\ wpc \in {"got", "reauth_failed"}
  /\ wpc' \in {"get", "ret"}

\* C14 (as claimed): no request is sent more than twice or makes more than
\* one login attempt, and every request whose response shows the login
\* indication has made one authenticate() call and has been sent a second
\* time when it ends.
C14_AlwaysRetriedOnce ==
  /\ [](csent <= 2 /\ creauth <= 1 /\ cposts <= creauth)
  /\ [][(RequestEnds /\ LoginIndicated(cfirst))
          => (creauth = 1 /\ csent = 2)]_vars

\* C14 (amended): a request (section, fallback or discovery GET) is sent at
\* most twice and makes at most one authenticate() call and one login POST;
\* the login indication on its first response is followed by exactly one
\* authenticate() call; when that call succeeds the request is sent exactly
\* once more and the retry's response starts no further authenticate() call
\* or GET of that request; when it fails the request ends without a retry.
C14_OneReauthOneRetry ==
  /\ [](/\ csent <= 2 /\ creauth <= 1 /\ cposts <= creauth
        /\ (wpc = "reauth"
              => csent = 1 /\ creauth = 0 /\ LoginIndicated(cfirst))
        /\ (wpc \in {"retry", "reauth_failed"} => csent = 1 /\ creauth = 1)
        /\ (wpc = "retry" => authenticated)
        /\ (wpc = "reauth_failed" => ~authenticated)
        /\ (csent = 2 => creauth = 1 /\ LoginIndicated(cfirst)))
  /\ [][/\ wpc' # wpc =>
            /\ (wpc = "got" /\ csent = 1 /\ LoginIndicated(clast)
                  /\ wcall \in {"full", "discovery"}
                  => wpc' = "reauth")
            /\ (wpc = "reauth"
                  => creauth' = 1 /\ wpc' \in {"retry", "reauth_failed"})
            /\ (wpc = "retry" => csent' = 2 /\ wpc' = "got")
            /\ (wpc = "reauth_failed" => wpc' \in {"get", "ret"})
            /\ (wpc = "got" /\ csent = 2 => wpc' \in {"get", "ret"})
        /\ (RequestEnds /\ LoginIndicated(cfirst))
            => /\ creauth = 1
               /\ csent = (IF wpc = "got" THEN 2 ELSE 1)
        /\ (RequestEnds /\ ~LoginIndicated(cfirst))
            => (creauth = 0 /\ csent = 1)]_vars

\* C14 witness: a section GET answered with the login page, re-authenticated
\* with a login POST, retried, and answered with the login page again.
C14_Witness ==
  /\ InSections
  /\ wpc = "got"
  /\ csent = 2 /\ creauth = 1 /\ cposts = 1
  /\ LoginIndicated(clast)

\* C15 (as claimed): a section whose retried request shows the login
\* indication again is not stored.
C15_SecondLoginTerminal ==
  [][(wpc = "got" /\ InSections /\ csent = 2 /\ LoginIndicated(clast))
       => CurUrl \notin wdata']_vars

\* C16 (as claimed): after a re-authentication has failed, get_slot_data
\* requests nothing more and returns no payload.
C16_ReauthFailureFailsFetch ==
  [][(wcall = "full" /\ wfailed)
       => (wlog' = wlog /\ wret'.kind # "dict")]_vars

\* C17 (as claimed): get_slot_data treats the response to the dev or alarms
\* GET as get_focused_slot_data treats it: it stores the section exactly when
\* the focused fetch stores it, and starts no re-authentication, as the
\* focused fetch starts none.
C17_FocusedIsRestriction ==
  [][(wpc = "got" /\ InSections /\ CurUrl \in Sections /\ csent = 1
        /\ wpc' # wpc)
       => /\ wpc' # "reauth"
          /\ (CurUrl \in wdata') = FocusedStores(cfirst)]_vars

\* C18: when every section is answered with JSON, JSON inside other text, a
\* body without JSON, a status other than 200 or a transport error, the
\* sections stored are exactly those answered with JSON; if there is one,
\* get_slot_data does not raise and returns them, and ApiWorker emits them.
C18_PartialTolerance ==
  (wcall = "full" /\ wclean)
    => /\ wdata = wok
       /\ wok # {} => wret \in {Pending, Dict(wok)}
       /\ wok # {} /\ wpc \in {"ret", "emit", "done"} => wret = Dict(wok)
       /\ wok # {} /\ wpc = "done" /\ wrunning
            => wsig = <<DataReady(Dict(wok))>>

\* C18 witness: store failed, dev and alarms succeeded, and the payload
\* returned has dev and alarms.
C18_Witness ==
  /\ wcall = "full" /\ wclean /\ wpc = "done"
  /\ wret = Dict({"dev", "alarms"})
  /\ wsig = <<DataReady(Dict({"dev", "alarms"}))>>

\* get_slot_data is over: it has returned a value or let an exception out.
FetchOver == wcall = "full" /\ wpc \in {"ret", "emit", "done"} /\ wret # Pending
\* data.json has been requested by get_slot_data.
FallbackAsked == [by |-> "full", url |-> FallbackUrl] \in wlog
\* get_slot_data has requested every section.
AllSectionsAsked ==
  \A j \in DOMAIN AllSections : [by |-> "full", url |-> AllSections[j]] \in wlog
\* The authenticate() at the entry of get_slot_data failed (line 249).
EntryFailed == wentryfail # "none"
\* An exception left get_slot_data from a section GET.
RaisedInLoop == wret = Raise /\ wsect <= Len(AllSections)

\* C19: the focused fetch never requests data.json. get_slot_data requests
\* it only after it has requested every section and stored none, and it has
\* requested it whenever the section loop has ended with nothing stored; a
\* get_slot_data that is over has requested it exactly when it stored no
\* section, unless it never came to the end of the section loop: the
\* authenticate() at its entry failed and it requested nothing, or a section
\* GET raised an exception that left the call.
C19_FallbackOnlyWhenEmpty ==
  /\ [by |-> "focused", url |-> FallbackUrl] \notin wlog
  /\ (wcall = "full" /\ FallbackAsked)
       => (wdata = {} /\ AllSectionsAsked /\ ~EntryFailed)
  /\ (wcall = "full" /\ wsect = Len(AllSections) + 1 /\ wpc # "get")
       => FallbackAsked
  /\ (FetchOver /\ ~EntryFailed /\ ~RaisedInLoop)
       => /\ AllSectionsAsked
          /\ FallbackAsked <=> wdata = {}
  /\ (FetchOver /\ EntryFailed)
       => (wlog = {} /\ wdata = {} /\ wret = None)
  /\ (FetchOver /\ RaisedInLoop) => ~FallbackAsked

\* C19 witness: a full fetch that authenticated, stored no section, asked for
\* data.json, was answered null and returned None.
C19_Witness ==
  /\ wcall = "full" /\ wpc = "done"
  /\ ~EntryFailed
  /\ wdata = {}
  /\ AllSectionsAsked
  /\ FallbackAsked
  /\ clast = "json_null"
  /\ wret = None

\* What ApiWorker emits for a returned value that is no payload: the
\* exception handler's message, the message of `if not data` for a value
\* that is false, the message of the structure test otherwise.
FailureSignal(v) ==
  IF v = Raise THEN ErrorSignal(OtherMsg)
  ELSE IF Falsy(v) THEN ErrorSignal(AuthMsg)
  ELSE ErrorSignal(InvalidMsg)

\* C20: ApiWorker emits dataReady only with a dict whose 'data' is not empty,
\* and never when no section was stored and the fallback gave no such dict:
\* whatever get_slot_data then returned (None from a failed entry
\* authenticate() or from a data.json answered null, {}, another false
\* value, other JSON) or raised, the one signal emitted is the error for it;
\* fetch_slot_data returns nothing that the orchestrator would store when the
\* focused fetch stored no section.
C20_ZeroSectionsIsFailure ==
  /\ wcall = "full" =>
       /\ \A k \in DOMAIN wsig :
            wsig[k].sig = "dataReady"
              => /\ wsig[k].data.kind = "dict" /\ wsig[k].data.data # {}
                 /\ wdata # {} \/ wret = Document
       /\ (wdata = {} /\ wret # Document /\ wsig # <<>>)
            => wsig = <<FailureSignal(wret)>>
       /\ (FetchOver /\ wdata = {} /\ ~EntryFailed /\ wret # Raise)
            => /\ FallbackAsked
               /\ wret = (IF csent = 2 \/ ~LoginIndicated(cfirst)
                           THEN FallbackValue(clast) ELSE EmptyObj)
  /\ wcall = "focused" /\ wdata = {} =>
       /\ ~Truthy(wret)
       /\ RecordOutcome(EmptyDict, 1, wret) = EmptyDict

\* C20 witness: no section stored, data.json answered null, None returned by
\* the fallback, and the error reported.
C20_Witness ==
  /\ wcall = "full" /\ wpc = "done"
  /\ wdata = {}
  /\ ~EntryFailed
  /\ FallbackAsked
  /\ wret = None
  /\ wsig = <<ErrorSignal(AuthMsg)>>

\* detect_slots has returned a list or let an exception out.
DiscoveryOver ==
  wcall = "discovery" /\ wpc \in {"ret", "emit", "done"} /\ wret # Pending

\* The aggregate endpoint gave no usable slot map: no response, a status
\* other than 200, or a body without the detected_coll document.
AggregateUnusable ==
  /\ csent >= 1
  /\ clast \in {"neterr", "non200", "login_non200", "garbage", "login",
                "json_nodata", "json_empty", "json_null", "json_false",
                "json_scalar", "json_nopath",
                "json_badshape", "embedded_nodata", "embedded_badshape"}

\* The elements of a set of integers, in ascending order.
RECURSIVE Ascending(_)
Ascending(S) ==
  IF S = {} THEN <<>>
  ELSE LET m == CHOOSE x \in S : \A y \in S : x <= y
       IN  <<m>> \o Ascending(S \ {m})

\* C21 (as claimed): when the aggregate endpoint is unreachable or its answer
\* has the wrong shape, discovery returns the ascending list of the slots
\* whose per-slot probe answers 200.
C21_ProbingFallback ==
  DiscoveryOver /\ wret # Raise /\ AggregateUnusable /\ devSlots # {}
    => wslots = Ascending(devSlots)

\* C22 (as claimed): against a device where nothing responds, the probe of
\* authenticate() included, discovery returns [1].
C22_SilentDeviceGivesDefault ==
  /\ DiscoveryOver
  /\ devSlots = {}
  /\ wentryfail = "transport" \/ (wentryfail = "none" /\ cfirst = "neterr")
  => wret # Raise /\ wslots = <<1>>

\* C23 (as claimed): discovery never returns an empty list and never raises,
\* whatever the device does.
C23_NeverEmptyNeverRaises ==
  DiscoveryOver => wret # Raise /\ wslots # <<>>

\* C24 (as claimed): every list discovery returns is strictly ascending and
\* holds positive integers only.
C24_AscendingPositive ==
  DiscoveryOver /\ wret # Raise =>
    /\ \A i \in DOMAIN wslots : wslots[i] >= 1
    /\ \A i, j \in DOMAIN wslots : i < j => wslots[i] < wslots[j]

\* The POSTs among the requests of a call.
Posts(c) == {i \in DOMAIN acall[c].reqs : acall[c].reqs[i].method = "POST"}
\* The call has returned.
Over(c) == acall[c].pc = "done"
\* The call has returned and had found the session unauthenticated.
FreshCall(c) == Over(c) /\ ~acall[c].before

\* C25: authenticate() on a session that is already authenticated returns at
\* once with success, has sent no request and received no response (so no
\* cookie changes), and leaves the session authenticated.
C25_AuthenticatedIsNoOp ==
  /\ [](\A c \in Callers :
         acall[c].made /\ acall[c].before =>
           /\ Over(c)
           /\ acall[c].ok
           /\ acall[c].reqs = <<>>
           /\ acall[c].responses = 0
           /\ acall[c].after)
  /\ [][\A c \in Callers :
          authenticated /\ ~acall[c].made /\ acall'[c].made
            => authenticated' /\ acall'[c].before]_vars

\* C25 witness: a call on a session that another call has authenticated.
C25_Witness ==
  \E c, d \in Callers :
    /\ FreshCall(c) /\ acall[c].ok
    /\ acall[d].made /\ acall[d].before

\* C26 (as claimed): a probe response that is not the login page, whatever
\* its status, makes authenticate() mark the session authenticated and
\* return success without posting a form.
C26_NonLoginProbeAnyStatus ==
  \A c \in Callers :
    /\ FreshCall(c)
    /\ acall[c].probe = "nologin"
         \/ (acall[c].probe = "non200" /\ ~acall[c].login)
    => acall[c].ok /\ acall[c].wrote /\ acall[c].after /\ Posts(c) = {}

\* C26 (amended): a probe response with status 200 that is not the login
\* page makes authenticate() mark the session authenticated and return
\* success without posting a form; a probe response with another status
\* makes it return failure, the session not marked and no form posted.
C26_NonLoginProbe200 ==
  \A c \in Callers :
    /\ FreshCall(c) /\ acall[c].probe = "nologin"
         => acall[c].ok /\ acall[c].wrote /\ acall[c].after /\ Posts(c) = {}
    /\ FreshCall(c) /\ acall[c].probe = "non200"
         => ~acall[c].ok /\ ~acall[c].wrote /\ Posts(c) = {}

\* C26 witness: both cases, in two calls.
C26_Witness ==
  \E c, d \in Callers :
    /\ FreshCall(c) /\ acall[c].probe = "non200" /\ ~acall[c].login
    /\ FreshCall(d) /\ acall[d].probe = "nologin" /\ acall[d].ok

\* C27 (as claimed): the session becomes authenticated only by an
\* authenticate() call whose probe showed no login page or whose login POST
\* was answered without a failure phrase; a call that fails returns failure
\* and leaves the session unauthenticated.
C27_AuthenticatedOnlyByLogin ==
  /\ [](\A c \in Callers :
         /\ Over(c) /\ acall[c].ok => acall[c].after
         /\ Over(c) /\ ~acall[c].ok => ~acall[c].after
         /\ FreshCall(c) => Len(acall[c].reqs) >= 1
         /\ FreshCall(c) /\ acall[c].ok =>
              \/ acall[c].probe = "nologin"
              \/ acall[c].probe = "login_form" /\ acall[c].post = "ok")
  /\ [][~authenticated /\ authenticated' =>
         \E c \in Callers :
           /\ ~Over(c) /\ acall'[c].pc = "done"
           /\ acall'[c].ok
           /\ \/ acall'[c].probe = "nologin"
              \/ acall'[c].probe = "login_form" /\ acall'[c].post = "ok"]_vars

\* The error kind of a failed call: Transport, ProtocolMismatch,
\* InvalidCredentials; "other" for a status that is not 200.
ErrorKind(call) ==
  IF call.cause \in {"transport", "transport_post"} THEN "Transport"
  ELSE IF call.cause = "protocol" THEN "ProtocolMismatch"
  ELSE IF call.cause = "credentials" THEN "InvalidCredentials"
  ELSE "other"

\* C28 (as claimed): two authenticate() calls that fail with different error
\* kinds return different values.
C28_ErrorKindsDistinct ==
  \A c, d \in Callers :
    /\ Over(c) /\ ~acall[c].ok /\ Over(d) /\ ~acall[d].ok
    /\ ErrorKind(acall[c]) # "other" /\ ErrorKind(acall[d]) # "other"
    /\ ErrorKind(acall[c]) # ErrorKind(acall[d])
    => acall[c].ok # acall[d].ok

\* The fields of a form that carry a value.
FieldsWith(form, v) == {n \in DOMAIN form : form[n] = v}

\* C29 (as claimed): the login POST carries the username under exactly one
\* field, the name of the first text input or else us, and the password
\* under exactly one field, the name of the first password input or else pw.
C29_OneFieldEach ==
  \A c \in Callers : \A i \in Posts(c) :
    /\ FieldsWith(acall[c].reqs[i].form, Username) =
         {IF acall[c].text # NoField THEN acall[c].text ELSE "us"}
    /\ FieldsWith(acall[c].reqs[i].form, Password) =
         {IF acall[c].pass # NoField THEN acall[c].pass ELSE "pw"}

\* The messages of the error signals ApiWorker has emitted.
ErrorMsgs == {wsig[k].msg : k \in {i \in DOMAIN wsig : wsig[i].sig = "error"}}

\* C30 (as claimed): a single-slot fetch that fails reports a message of the
\* kind of its failure: the authentication message only when an
\* authentication was refused by a device that answered, and a connection
\* message when the device could not be reached.
C30_FailureKindReported ==
  wcall = "full" /\ wpc = "done" /\ wrunning =>
    /\ AuthMsg \in ErrorMsgs =>
         \/ wentryfail \in {"status", "protocol", "credentials"}
         \/ wfailed
    /\ wentryfail = "transport" => ErrorMsgs \subseteq {ConnMsg, TimeoutMsg}

\* A payload has been normalized.
Normalized == DOMAIN nview = Shapes

\* C31 (as claimed): the same product, time, memory and alarm data give the
\* same product_info, time_info, memory_info and alarm_info in the flat, the
\* device_info and the doubly nested shape.
C31_ShapeTolerance ==
  Normalized =>
    \A s1, s2 \in DocumentedShapes :
      /\ nview[s1].product_info = nview[s2].product_info
      /\ nview[s1].time_info = nview[s2].time_info
      /\ nview[s1].memory_info = nview[s2].memory_info
      /\ nview[s1].alarm_info = nview[s2].alarm_info

\* The payload holds the field: the key of a reported section.
Reports(section, key) ==
  section \in DOMAIN nunder /\ key \in DOMAIN nunder[section]
\* The payload holds the alarm count among the severities of its status.
ReportsAlarm(key) ==
  /\ HasPath(nunder, <<"alarms", "status", "severities">>)
  /\ key \in DOMAIN nunder["alarms"]["status"]["severities"]

\* C32 (as claimed): every field of the view is present for every payload,
\* and a field the payload does not hold has its sentinel: "Unknown" for the
\* product and time strings, 0 or "0" for the threshold and the alarm counts.
C32_FieldsAlwaysPresent ==
  Normalized =>
    \A sh \in Shapes :
      /\ \A k \in DOMAIN ProductDefault :
           /\ k \in DOMAIN nview[sh].product_info
           /\ ~Reports("product_info", k)
                => nview[sh].product_info[k] = "Unknown"
      /\ \A k \in DOMAIN TimeDefault :
           /\ k \in DOMAIN nview[sh].time_info
           /\ ~Reports("time", k) => nview[sh].time_info[k] = "Unknown"
      /\ "threshold" \in DOMAIN nview[sh].memory_info
      /\ ~Reports("mem_usage", "threshold")
           => nview[sh].memory_info["threshold"] \in {"0", "int:0"}
      /\ \A k \in AlarmKeys :
           /\ k \in DOMAIN nview[sh].alarm_info
           /\ ~ReportsAlarm(k) => nview[sh].alarm_info[k] \in {"0", "int:0"}

\* The step is the throttle test of run r for one completion (lines 100-102).
Completion(r) == cpc[r] = "test" /\ cpc'[r] \in {"notify", "wait"}
\* progress_updated is emitted in the step.
ProgressEmitted ==
  /\ Len(signals') = Len(signals) + 1
  /\ signals'[Len(signals')].sig = "progress_updated"

\* C33: last_update_time is the reading of the clock at start() or the
\* reading a completion took before its progress_updated; progress_updated is
\* emitted only by a completion whose test let it through; a completion that
\* is not the final one is let through only when its reading of the clock is
\* at least the update interval (200 ms) later than last_update_time, and
\* emits nothing when it is not; the final completion is let through at any
\* time. So the reading of a progress_updated that is not the final one, from
\* the test that lets it through until it is stamped, is at least the
\* interval later than the reading of the run's previous progress_updated, or
\* of start() when there is none.
C33_ProgressRateLimited ==
  /\ [](\A r \in Runs :
          (cpc[r] \in {"notify", "stamp"} /\ completed_slots # N)
            => (ctime[r] - last_update_time >= UpdateInterval /\ ctime[r] <= now))
  /\ [][/\ last_update_time' # last_update_time
            => \/ \E r \in Runs : cpc[r] = "stamp" /\ last_update_time' = ctime[r]
               \/ uipc = "start_time" /\ last_update_time' = now
        /\ ProgressEmitted
            => \E r \in Runs : cpc[r] = "notify" /\ cpc'[r] = "stamp"
        /\ \A r \in Runs : Completion(r) =>
            LET final == completed_slots = N
                early == now - last_update_time < UpdateInterval
            IN  /\ cpc'[r] = "notify" => ctime'[r] = now
                /\ cpc'[r] = "notify" /\ ~final => ~early
                /\ early /\ ~final => cpc'[r] = "wait" /\ signals' = signals]_vars

\* C33 witness: a run over three slots has emitted progress_updated for its
\* first completion and, the update interval later, for its second; the
\* reading of the first is stamped, that of the second is about to be, and
\* the third completion is still to come.
C33_Witness ==
  \E r \in Runs :
    /\ N = 3
    /\ cpc[r] = "stamp"
    /\ completed_slots = 2
    /\ \E k, l \in SigIdx :
         /\ k < l
         /\ signals[k].run = r /\ signals[l].run = r
         /\ signals[k].sig = "progress_updated" /\ signals[k].cur = 1
         /\ signals[l].sig = "progress_updated" /\ signals[l].cur = 2
         /\ signals[l].total = 3
    /\ last_update_time >= UpdateInterval
    /\ ctime[r] - last_update_time >= UpdateInterval

\* The progress_updated notifications of run r.
Progress(r) ==
  {k \in SigIdx : signals[k].run = r /\ signals[k].sig = "progress_updated"}

\* C35: the completed counts of the successive progress_updated of a run are
\* strictly increasing and lie in 1..total, total being the number of
\* requested slots; completed_slots never exceeds the number of tasks
\* submitted.
C35_ProgressCounts ==
  /\ \A r \in Runs :
       /\ \A k \in Progress(r) :
            /\ signals[k].total = N
            /\ 1 <= signals[k].cur /\ signals[k].cur <= signals[k].total
       /\ \A k, l \in Progress(r) : k < l => signals[k].cur < signals[l].cur
  /\ completed_slots <= (IF nruns = 0 THEN 0 ELSE submitted[nruns])

\* C35 witness: two notifications of one run, the second being the final
\* one.
C35_Witness ==
  \E r \in Runs : \E k, l \in Progress(r) :
    k < l /\ signals[l].cur = N /\ completed_slots = N

\* A payload with a non-empty data mapping.
IsPayload(v) == v.kind = "dict" /\ v.data # {}
\* The slots whose fetch_slot_data returned a payload in run r.
Fetched(r) == {slots[i] : i \in {j \in Idx : task[r][j] = "done"
                                             /\ IsPayload(result[r][j])}}

\* C36 (as claimed): the keys of all_slots_data are requested slots and its
\* values are payloads with a non-empty data mapping; the aggregate that
\* all_data_ready carries has exactly the slots whose fetch returned such a
\* payload in the run that emits it, nothing of an earlier run.
C36_AggregateOfThisRun ==
  /\ Keys(all_slots_data) \subseteq Requested
  /\ \A s \in Keys(all_slots_data) : IsPayload(all_slots_data[s])
  /\ \A k \in SigIdx :
       signals[k].sig = "all_data_ready"
         => Keys(signals[k].data) = Fetched(signals[k].run)

\* The finished emissions of run r.
Finished(r) == {k \in SigIdx : signals[k].run = r /\ signals[k].sig = "finished"}

\* Run r emits finished at most once, after its all_data_ready or
\* error_occurred, never both of these, and is_running is false from then on.
OneTerminalState(r) ==
  /\ Cardinality(Finished(r)) <= 1
  /\ \A k \in Finished(r) : \A j \in Ready(r) \cup Errors(r) : j < k
  /\ Ready(r) = {} \/ Errors(r) = {}
  /\ Finished(r) # {} => ~is_running

\* C34 (as claimed): every started run, its tasks returning, eventually
\* emits finished, exactly once, after any all_data_ready or error_occurred
\* of the run and never both, and leaves is_running false.
C34_RunTerminates ==
  /\ [](\A r \in Runs : OneTerminalState(r))
  /\ \A r \in Runs :
       cpc[r] = "started" ~> (Finished(r) # {} /\ ~is_running)

\* C37: one ApiWorker run emits at most one signal, dataReady or error; when
\* stop() has been called before the run tests self.running after the fetch,
\* so whenever it came before the fetch returned, the run emits nothing then
\* or later; dataReady carries a dict whose data mapping is not empty.
C37_AtMostOneSignal ==
  /\ [](wcall = "full" =>
         /\ Len(wsig) <= 1
         /\ \A k \in DOMAIN wsig :
              /\ wsig[k].sig \in {"dataReady", "error"}
              /\ wsig[k].sig = "dataReady" => IsPayload(wsig[k].data))
  /\ [][wcall = "full" /\ ~wrunning /\ wpc # "emit"
         => wsig' = wsig /\ wpc' # "emit"]_vars

\* C37 witness: stop() was called while the fetch was under way, the fetch
\* returned a payload, and nothing was emitted.
C37_Witness ==
  /\ wcall = "full" /\ wpc = "done"
  /\ ~wrunning
  /\ HasData(wret)
  /\ wsig = <<>>

\* C38 (as claimed): an unstopped SlotDetectionWorker run with the default
\* settings emits slotsDetected exactly once and no error.
C38_DefaultDetectionEmitsSlots ==
  wcall = "direct" /\ wpc = "done" /\ wrunning =>
    /\ Len(wsig) = 1
    /\ wsig[1].sig = "slotsDetected"

\* C39 (as claimed): against the same client and device, a run with
\* use_direct_api True ends as the run with use_direct_api False does: the
\* same signal with the same slot list.
C39_ModesAgree ==
  wcall = "discovery" /\ wpc = "done" /\ wrunning =>
    /\ wsig = DetectOutcome(FALSE, DetectResult)
    /\ DetectOutcome(TRUE, DetectResult) = DetectOutcome(FALSE, DetectResult)

====
